---------------------------- MODULE Spec2Model ----------------------------
(***************************************************************************)
(* WeatherApp-PIU: the schedule/weather merge of src/core/data_processor.py*)
(* together with the parts of src/core/schedule_manager.py and             *)
(* src/core/weather_service.py that produce its inputs.                    *)
(*                                                                         *)
(* Representation of Python values                                         *)
(*   str        a sequence of one-character strings, <<"L","u","n","i">>.  *)
(*              The Romanian letters with diacritics are written           *)
(*              "t," (t-comma), "a^" (a-circumflex), "a(" (a-breve),       *)
(*              "T,", "A^", "A(" for their capitals: each is ONE           *)
(*              character of the modelled string.                          *)
(*   dict       a record; a key the dict lacks is a field the record lacks *)
(*   list       a sequence                                                 *)
(*   None       the record None                                            *)
(*   number     Num(n); temperatures and precipitation amounts are held in *)
(*              tenths, so 6.2 mm is Num(62) and 5.0 degrees is Num(50);   *)
(*              weather codes and probabilities are held as they are       *)
(*   date       its proleptic Gregorian ordinal (date.toordinal())         *)
(*   datetime   DateTime(date, seconds since that day's midnight)          *)
(*   a call     Return(v) when it returns v, Raise(e) when exception e     *)
(*              leaves it                                                  *)
(***************************************************************************)
EXTENDS Integers, Sequences, FiniteSets, TLC

VARIABLES
    pc,               \* the operation that ran last ("init" before any)
    today,            \* what datetime.now().date() returns
    day_name,         \* _calculate_entry_date: argument day_name
    entry_date,       \* _calculate_entry_date: result; _find_weather_for_entry: argument
    time_range,       \* _find_weather_for_entry: argument time_range
    weather_data,     \* the forecast data set (process_weather_data's output)
    closest_weather,  \* _find_weather_for_entry: outcome
    weather_info,     \* detect_rain_conditions: argument
    rain,             \* detect_rain_conditions: outcome
    raw_data,         \* the decoded JSON body of a forecast reply
    file_data,        \* the schedule file being loaded
    load_result,      \* load_from_json / load_from_csv: returned dict
    schedule,         \* ScheduleManager.schedule
    enriched_entries, \* merge_schedule_with_weather: outcome
    statistics,       \* calculate_statistics: outcome
    \* objects and the references between them
    heap,             \* every dict and list allocated so far; its index is its identity
    heap_before,      \* the heap as it was when the last call began
    schedule_ref,     \* MainWindow.schedule_data["schedule"]: the list of entries
    weather_ref,      \* MainWindow.weather_data: the forecast dict
    enriched_ref,     \* MainWindow.enriched_entries: the list the merge returned
    \* schedule files
    schedule_data,    \* MainWindow.schedule_data
    disk,             \* the file the last export wrote
    exported,         \* ScheduleManager.schedule when that export was made
    export_result,    \* export_to_json / export_to_csv: returned bool
    \* WeatherService
    now,              \* what datetime.now() returns, in seconds
    city_name,        \* WeatherService.city_name
    latitude,         \* WeatherService.latitude
    longitude,        \* WeatherService.longitude
    temperature_unit, \* WeatherService.temperature_unit
    cached_weather,   \* WeatherService.cached_weather
    cache_timestamp,  \* WeatherService.cache_timestamp
    pending_days_request, \* WeatherService.pending_days_request
    network,          \* requests given to QNetworkAccessManager.get, not yet answered
    timers,           \* QTimer.singleShot(0, ...) callbacks not yet run
    signals,          \* what the last operation emitted, oldest first
    args,             \* set_temperature_unit: argument unit; handle_response: argument reply
    weather_cache_file, \* resources/weather_cache.json
    \* MainWindow's button and its NotificationManager
    refresh_weather_button, \* refresh_weather_button.isEnabled()
    notifications_enabled,  \* NotificationManager.notifications_enabled
    check_interval,         \* NotificationManager.check_interval, milliseconds
    check_timer,            \* NotificationManager.check_timer
    notification_history,   \* NotificationManager.notification_history
    notifications,          \* the entry ids counted in each rain notification
                            \* made since the history was last cleared
    filtered                \* filter_entries_by_date_range: returned list

heapVars == <<heap, heap_before, schedule_ref, weather_ref, enriched_ref>>

fileVars == <<schedule_data, disk, exported, export_result>>

serviceVars ==
    <<now, city_name, latitude, longitude, temperature_unit, cached_weather,
      cache_timestamp, pending_days_request, network, timers, signals, args,
      weather_cache_file>>

windowVars ==
    <<refresh_weather_button, notifications_enabled, check_interval,
      check_timer, notification_history, notifications, filtered>>

vars == <<pc, today, day_name, entry_date, time_range, weather_data,
          closest_weather, weather_info, rain, raw_data, file_data,
          load_result, schedule, enriched_entries, statistics,
          heapVars, fileVars, serviceVars, windowVars>>

-----------------------------------------------------------------------------
(* Python values *)

None == [type |-> "NoneType"]

Num(n) == [type |-> "num", v |-> n]

Return(v) == [exc |-> "none", value |-> v]

Raise(e) == [exc |-> e]

\* {}
EmptyDict == [k \in {} |-> None]

\* dict.get(key, default)
Get(d, key, default) == IF key \in DOMAIN d THEN d[key] ELSE default

-----------------------------------------------------------------------------
(* str.lower() and str.strip() *)

ToLower ==
    [A |-> "a", B |-> "b", C |-> "c", D |-> "d", E |-> "e", F |-> "f",
     G |-> "g", H |-> "h", I |-> "i", J |-> "j", K |-> "k", L |-> "l",
     M |-> "m", N |-> "n", O |-> "o", P |-> "p", Q |-> "q", R |-> "r",
     S |-> "s", T |-> "t", U |-> "u", V |-> "v", W |-> "w", X |-> "x",
     Y |-> "y", Z |-> "z"]
    @@ ("T," :> "t,") @@ ("A^" :> "a^") @@ ("A(" :> "a(")
    @@ ("S," :> "s,") @@ ("I^" :> "i^")

LowerChar(c) == IF c \in DOMAIN ToLower THEN ToLower[c] ELSE c

Lower(s) == [i \in 1..Len(s) |-> LowerChar(s[i])]

Whitespace == {" ", "\t", "\n", "\r"}

RECURSIVE LStrip(_)
LStrip(s) ==
    IF s # <<>> /\ Head(s) \in Whitespace THEN LStrip(Tail(s)) ELSE s

RECURSIVE RStrip(_)
RStrip(s) ==
    IF s # <<>> /\ s[Len(s)] \in Whitespace
    THEN RStrip(SubSeq(s, 1, Len(s) - 1))
    ELSE s

\* lstrip() written for strip(): trailing whitespace is kept
strip_leading_only(s) == LStrip(s)

Strip(s) == RStrip(LStrip(s))

-----------------------------------------------------------------------------
(* datetime.date *)

\* date.weekday(): Monday is 0; ordinal 1 (0001-01-01) is a Monday
weekday(d) == (d + 6) % 7

\* DataProcessor.__init__: self.day_mapping
day_mapping ==
    (<<"l","u","n","i">> :> 0)
    @@ (<<"m","a","r","t,","i">> :> 1)
    @@ (<<"m","i","e","r","c","u","r","i">> :> 2)
    @@ (<<"j","o","i">> :> 3)
    @@ (<<"v","i","n","e","r","i">> :> 4)
    @@ (<<"s","a^","m","b","a(","t","a(">> :> 5)
    @@ (<<"d","u","m","i","n","i","c","a(">> :> 6)

\* the branch `if days_ahead < 0` taken also when days_ahead = 0
days_ahead_next_week(target_weekday, current_weekday) ==
    LET d == target_weekday - current_weekday
    IN  IF d <= 0 THEN d + 7 ELSE d

\* DataProcessor._calculate_entry_date, lines 93-97
days_ahead(target_weekday, current_weekday) ==
    LET d == target_weekday - current_weekday
    IN  IF d < 0 THEN d + 7 ELSE d

\* DataProcessor._calculate_entry_date: None, or the date as its ordinal
\* wrapped in Num
_calculate_entry_date(name, reference_date) ==
    LET day_normalized == Strip(Lower(name))
    IN  IF day_normalized \notin DOMAIN day_mapping
        THEN None
        ELSE Num(reference_date
                 + days_ahead(day_mapping[day_normalized],
                              weekday(reference_date)))

-----------------------------------------------------------------------------
(* str.split and datetime.strptime(..., "%H:%M") *)

\* str.split(sep) for a one-character separator
RECURSIVE Split(_, _)
Split(s, sep) ==
    IF \A i \in 1..Len(s) : s[i] # sep
    THEN <<s>>
    ELSE LET k == CHOOSE i \in 1..Len(s) :
                      s[i] = sep /\ \A j \in 1..(i - 1) : s[j] # sep
         IN  <<SubSeq(s, 1, k - 1)>> \o Split(SubSeq(s, k + 1, Len(s)), sep)

\* `sep in s`
Contains(s, sep) == \E i \in 1..Len(s) : s[i] = sep

DigitVal ==
    ("0" :> 0) @@ ("1" :> 1) @@ ("2" :> 2) @@ ("3" :> 3) @@ ("4" :> 4)
    @@ ("5" :> 5) @@ ("6" :> 6) @@ ("7" :> 7) @@ ("8" :> 8) @@ ("9" :> 9)

IsDigit(c) == c \in DOMAIN DigitVal

\* The directive %H is the regular expression (2[0-3]|[0-1]\d|\d) and %M is
\* ([0-5]\d|\d); a match that leaves text unconsumed raises ValueError.
\* Returns the minutes since midnight, or Raise("ValueError").
strptime_HM(s) ==
    LET hlen == IF Len(s) >= 2 /\ IsDigit(s[1]) /\ IsDigit(s[2]) THEN 2 ELSE 1
        hour_ok ==
            /\ Len(s) >= hlen + 1
            /\ IsDigit(s[1])
            /\ s[hlen + 1] = ":"
            /\ hlen = 2 =>
                   \/ s[1] = "2" /\ DigitVal[s[2]] <= 3
                   \/ s[1] \in {"0", "1"}
        hour == IF hlen = 2 THEN 10 * DigitVal[s[1]] + DigitVal[s[2]]
                ELSE DigitVal[s[1]]
        rest == SubSeq(s, hlen + 2, Len(s))
        minute_ok ==
            \/ Len(rest) = 2 /\ rest[1] \in {"0","1","2","3","4","5"}
                             /\ IsDigit(rest[2])
            \/ Len(rest) = 1 /\ IsDigit(rest[1])
        minute == IF Len(rest) = 2 THEN 10 * DigitVal[rest[1]] + DigitVal[rest[2]]
                  ELSE DigitVal[rest[1]]
    IN  IF hour_ok /\ minute_ok
        THEN Return(60 * hour + minute)
        ELSE Raise("ValueError")

-----------------------------------------------------------------------------
(* datetime.datetime *)

SecondsPerDay == 86400

DateTime(date, seconds) == [date |-> date, seconds |-> seconds]

\* The values an hourly sample's "datetime" can hold:
\*   IsoNaive     a str in ISO form without UTC offset, "2025-01-06T08:00"
\*   IsoAware     a str in ISO form with a UTC offset, "2025-01-06T08:00+02:00"
\*   NotIso       a str that is not in ISO form
\*   None         JSON null
IsoNaive(date, hour, minute, second) ==
    [type |-> "str", form |-> "iso", date |-> date, hour |-> hour,
     minute |-> minute, second |-> second]

\* date.isoformat(): "2025-01-06"
IsoDate(date) ==
    [type |-> "str", form |-> "iso", date |-> date, hour |-> 0,
     minute |-> 0, second |-> 0, date_only |-> TRUE]

IsoAware(date, hour, minute, second) ==
    [type |-> "str", form |-> "iso+offset", date |-> date, hour |-> hour,
     minute |-> minute, second |-> second]

NotIso == [type |-> "str", form |-> "other"]

\* datetime.fromisoformat: TypeError for a non-str, ValueError for a str that
\* is not in ISO form, else the datetime (aware when the str has an offset)
fromisoformat(x) ==
    IF x.type # "str" THEN Raise("TypeError")
    ELSE IF x.form = "other" THEN Raise("ValueError")
    ELSE Return([at |-> DateTime(x.date, x.hour * 3600 + x.minute * 60
                                         + x.second),
                 aware |-> x.form = "iso+offset"])

Abs(n) == IF n < 0 THEN -n ELSE n

\* (a - b).total_seconds() for two naive datetimes
total_seconds(a, b) ==
    (a.date - b.date) * SecondsPerDay + (a.seconds - b.seconds)

-----------------------------------------------------------------------------
(* DataProcessor._find_weather_for_entry *)

\* float('inf')
Infinity == [type |-> "inf"]

\* time_diff < min_time_diff
Closer(time_diff, min_time_diff) ==
    min_time_diff = Infinity \/ time_diff < min_time_diff.v

\* the matching window of line 150, in seconds
MatchWindow == 1800

\* line 150 without the window test
accepts_any_distance(time_diff, min_time_diff) ==
    Closer(time_diff, min_time_diff)

\* line 150 with <= in place of <: the last of equally close samples wins
accepts_ties(time_diff, min_time_diff) ==
    /\ time_diff <= MatchWindow
    /\ (min_time_diff = Infinity \/ time_diff <= min_time_diff.v)

\* line 150: if time_diff <= 1800 and time_diff < min_time_diff
accepts(time_diff, min_time_diff) ==
    /\ time_diff <= MatchWindow
    /\ Closer(time_diff, min_time_diff)

\* `not x` for a dict or None
Falsy(x) == x = None \/ DOMAIN x = {}

\* lines 140-152: the scan from sample i on, with the closest sample so far
RECURSIVE scan_hourly(_, _, _, _, _)
scan_hourly(hourly, target_datetime, i, closest, min_time_diff) ==
    IF i > Len(hourly) THEN Return(closest)
    ELSE
    LET hourly_entry == hourly[i]
        skip == scan_hourly(hourly, target_datetime, i + 1, closest, min_time_diff)
    IN  IF "datetime" \notin DOMAIN hourly_entry THEN skip      \* KeyError
        ELSE
        LET hourly_datetime == fromisoformat(hourly_entry.datetime)
        IN  IF hourly_datetime.exc = "ValueError" THEN skip
            ELSE IF hourly_datetime.exc # "none" THEN hourly_datetime
            \* naive - aware: "can't subtract offset-naive and offset-aware"
            ELSE IF hourly_datetime.value.aware THEN Raise("TypeError")
            ELSE
            LET time_diff ==
                    Abs(total_seconds(hourly_datetime.value.at,
                                      target_datetime))
            IN  IF accepts(time_diff, min_time_diff)
                THEN scan_hourly(hourly, target_datetime, i + 1,
                                 hourly_entry, Num(time_diff))
                ELSE skip

\* DataProcessor._find_weather_for_entry(entry_date, time_range, weather_data);
\* date is the ordinal of entry_date. f"{entry_date}" is the date in ISO
\* form, which "%Y-%m-%d " always consumes, so the strptime of line 129
\* succeeds exactly when "%H:%M" consumes start_time_str.
_find_weather_for_entry(date, range, data) ==
    IF Falsy(data) \/ "hourly" \notin DOMAIN data THEN Return(None)
    ELSE IF ~Contains(range, "-") THEN Return(None)
    ELSE
    LET start_time_str == Strip(Split(range, "-")[1])
        start == strptime_HM(start_time_str)
    IN  IF start.exc = "ValueError" THEN Return(None)
        ELSE scan_hourly(data.hourly,
                         DateTime(date, 60 * start.value),
                         1, None, Infinity)

-----------------------------------------------------------------------------
(* DataProcessor.detect_rain_conditions *)

\* x > n: TypeError when x is None
Gt(x, n) == IF x.type = "num" THEN Return(x.v > n) ELSE Raise("TypeError")

\* a or b, b evaluated only when a is false
OrElse(a, b) == IF a.exc # "none" \/ a.value THEN a ELSE b

\* x in codes (None is in no list of numbers)
InCodes(x, codes) == Return(x.type = "num" /\ x.v \in codes)

\* line 233 holding the rain codes 61-65 only, the showers 80-82 left out
rain_codes_without_showers == {61, 63, 65}

\* line 233
rain_codes == {61, 63, 65, 80, 81, 82}

\* thresholds of lines 235-239: 30 %, and 0 mm, 5 mm, 1 mm in tenths of a mm
RainProbability == 30

AnyAmount == 0

HeavyAmount == 50

ModerateAmount == 10

\* lines 237-242 with the moderate test made before the heavy one
severity_moderate_first(precip_amount, weather_code) ==
    LET moderate == OrElse(Gt(precip_amount, ModerateAmount),
                           InCodes(weather_code, {63, 81}))
        heavy == OrElse(Gt(precip_amount, HeavyAmount),
                        InCodes(weather_code, {65, 82}))
    IN  IF moderate.exc # "none" THEN moderate
        ELSE IF moderate.value THEN Return(<<TRUE, "moderate">>)
        ELSE IF heavy.exc # "none" THEN heavy
        ELSE IF heavy.value THEN Return(<<TRUE, "heavy">>)
        ELSE Return(<<TRUE, "light">>)

\* lines 237-242
severity(precip_amount, weather_code) ==
    LET heavy == OrElse(Gt(precip_amount, HeavyAmount),
                        InCodes(weather_code, {65, 82}))
        moderate == OrElse(Gt(precip_amount, ModerateAmount),
                           InCodes(weather_code, {63, 81}))
    IN  IF heavy.exc # "none" THEN heavy
        ELSE IF heavy.value THEN Return(<<TRUE, "heavy">>)
        ELSE IF moderate.exc # "none" THEN moderate
        ELSE IF moderate.value THEN Return(<<TRUE, "moderate">>)
        ELSE Return(<<TRUE, "light">>)

\* DataProcessor.detect_rain_conditions
detect_rain_conditions(info) ==
    IF Falsy(info) THEN Return(<<FALSE, "none">>)
    ELSE
    LET precip_prob == Get(info, "precipitation_probability", Num(0))
        precip_amount == Get(info, "precipitation", Num(0))
        weather_code == Get(info, "weather_code", Num(0))
        rainy == OrElse(InCodes(weather_code, rain_codes),
                        OrElse(Gt(precip_amount, AnyAmount),
                               Gt(precip_prob, RainProbability)))
    IN  IF rainy.exc # "none" THEN rainy
        ELSE IF rainy.value THEN severity(precip_amount, weather_code)
        ELSE Return(<<FALSE, "none">>)

-----------------------------------------------------------------------------
(* WeatherService.process_weather_data *)

\* WeatherService.get_weather_description: the table of WMO codes, its texts
\* written without diacritics
weather_codes ==
    (0 :> "Senin") @@ (1 :> "Predominant senin") @@ (2 :> "Partial inorat")
    @@ (3 :> "Inorat") @@ (45 :> "Ceata") @@ (48 :> "Ceata cu chiciura")
    @@ (51 :> "Burnita usoara") @@ (53 :> "Burnita moderata")
    @@ (55 :> "Burnita densa") @@ (61 :> "Ploaie usoara")
    @@ (63 :> "Ploaie moderata") @@ (65 :> "Ploaie torentiala")
    @@ (71 :> "Ninsoare usoara") @@ (73 :> "Ninsoare moderata")
    @@ (75 :> "Ninsoare puternica") @@ (77 :> "Fulgi de zapada")
    @@ (80 :> "Averse usoare") @@ (81 :> "Averse moderate")
    @@ (82 :> "Averse puternice") @@ (85 :> "Averse de zapada usoare")
    @@ (86 :> "Averse de zapada puternice") @@ (95 :> "Furtuna")
    @@ (96 :> "Furtuna cu grindina usoara")
    @@ (99 :> "Furtuna cu grindina puternica")

\* weather_codes.get(code, "Necunoscut")
get_weather_description(code) ==
    IF code.type = "num" /\ code.v \in DOMAIN weather_codes
    THEN weather_codes[code.v]
    ELSE "Necunoscut"

\* the default taken one index early
short_by_one(values, i, default) ==
    IF i < Len(values) THEN values[i] ELSE default

\* values[i] if i < len(values) else default   (i counts from 1 here)
ItemOr(values, i, default) ==
    IF i <= Len(values) THEN values[i] ELSE default

\* lines 192-202: the hourly record of index i
hourly_entry_at(hourly_data, i) ==
    LET weather_codes_ == Get(hourly_data, "weathercode", <<>>)
    IN  [datetime |-> Get(hourly_data, "time", <<>>)[i],
         temperature |->
             ItemOr(Get(hourly_data, "temperature_2m", <<>>), i, None),
         precipitation_probability |->
             ItemOr(Get(hourly_data, "precipitation_probability", <<>>), i, Num(0)),
         precipitation |->
             ItemOr(Get(hourly_data, "precipitation", <<>>), i, Num(0)),
         weather_code |-> ItemOr(weather_codes_, i, Num(0)),
         weather_description |->
             get_weather_description(ItemOr(weather_codes_, i, Num(0))),
         wind_speed |->
             ItemOr(Get(hourly_data, "windspeed_10m", <<>>), i, Num(0))]

\* lines 214-223: the daily record of index i
daily_entry_at(daily_data, i) ==
    LET daily_codes == Get(daily_data, "weathercode", <<>>)
    IN  [date |-> Get(daily_data, "time", <<>>)[i],
         temperature_max |->
             ItemOr(Get(daily_data, "temperature_2m_max", <<>>), i, None),
         temperature_min |->
             ItemOr(Get(daily_data, "temperature_2m_min", <<>>), i, None),
         precipitation_sum |->
             ItemOr(Get(daily_data, "precipitation_sum", <<>>), i, Num(0)),
         weather_code |-> ItemOr(daily_codes, i, Num(0)),
         weather_description |->
             get_weather_description(ItemOr(daily_codes, i, Num(0)))]

\* WeatherService.process_weather_data
process_weather_data(raw) ==
    LET hourly_data == Get(raw, "hourly", EmptyDict)
        daily_data == Get(raw, "daily", EmptyDict)
    IN  [hourly |-> [i \in 1..Len(Get(hourly_data, "time", <<>>)) |->
                        hourly_entry_at(hourly_data, i)],
         daily |-> [i \in 1..Len(Get(daily_data, "time", <<>>)) |->
                       daily_entry_at(daily_data, i)],
         location |-> [latitude |-> Get(raw, "latitude", None),
                       longitude |-> Get(raw, "longitude", None)]]

-----------------------------------------------------------------------------
(* ScheduleManager._validate_entry and load_from_json *)

\* `key not in entry` alone: an empty value passes
Missing(entry, key) == key \notin DOMAIN entry

\* `key not in entry or not entry[key]`
MissingOrEmpty(entry, key) == key \notin DOMAIN entry \/ entry[key] = <<>>

\* unpacking that takes the first n values and ignores the rest
unpacks_first(parts, n) == Len(parts) >= n

\* `start_time, end_time = parts`: ValueError unless parts has n values
unpacks(parts, n) == Len(parts) = n

\* ScheduleManager._validate_entry: the validated entry, or ValueError
_validate_entry(entry) ==
    IF MissingOrEmpty(entry, "day") THEN Raise("ValueError")
    ELSE IF MissingOrEmpty(entry, "time") THEN Raise("ValueError")
    ELSE IF MissingOrEmpty(entry, "subject") THEN Raise("ValueError")
    ELSE IF ~Contains(entry.time, "-") THEN Raise("ValueError")
    \* start_time, end_time = time_str.split("-")
    ELSE IF ~unpacks(Split(entry.time, "-"), 2) THEN Raise("ValueError")
    ELSE IF strptime_HM(Strip(Split(entry.time, "-")[1])).exc # "none"
         THEN Raise("ValueError")
    ELSE IF strptime_HM(Strip(Split(entry.time, "-")[2])).exc # "none"
         THEN Raise("ValueError")
    ELSE Return([day |-> Strip(entry.day),
                 time |-> Strip(entry.time),
                 subject |-> Strip(entry.subject),
                 location |-> Strip(Get(entry, "location", <<>>))])

\* The content of a .json file is NotJson, which json.load cannot decode, or
\* a JSON document: an object is a record, an array a sequence, and a string
\* is JsonString(body), body being the characters written between its quotes.

\* self.schedule assigned inside the loop: a failed load leaves the entries
\* validated before the failure
prefix_on_error(validated, old_schedule) ==
    LET failed == {i \in 1..Len(validated) : validated[i].exc # "none"}
        first == CHOOSE i \in failed : \A j \in failed : i <= j
    IN  [i \in 1..(first - 1) |-> validated[i].value]

\* self.schedule is assigned after the loop only (lines 50 and 84): a load
\* that fails leaves it as it was
stored_on_error(validated, old_schedule) == old_schedule

\* a schedule file: the extension of its path and its content
File(ext, content) == [ext |-> ext, content |-> content]

\* a file that json.load cannot decode
NotJson == [type |-> "not json"]

JsonString(body) == [json |-> "string", body |-> body]

\* json.dump of a str with ensure_ascii=False: the characters between the
\* quotes
RECURSIVE json_escape(_)
json_escape(s) ==
    IF s = <<>> THEN <<>>
    ELSE LET c == Head(s)
             written == IF c = "\"" THEN <<"\\", "\"">>
                        ELSE IF c = "\\" THEN <<"\\", "\\">>
                        ELSE IF c = "\n" THEN <<"\\", "n">>
                        ELSE IF c = "\r" THEN <<"\\", "r">>
                        ELSE IF c = "\t" THEN <<"\\", "t">>
                        ELSE <<c>>
         IN  written \o json_escape(Tail(s))

\* the character a backslash escape stands for
json_escapes ==
    ("\"" :> "\"") @@ ("\\" :> "\\") @@ ("/" :> "/")
    @@ ("n" :> "\n") @@ ("r" :> "\r") @@ ("t" :> "\t")

\* json.load of a string: a bare quote or control character, or an unknown
\* escape, is a JSONDecodeError
RECURSIVE json_unescape(_)
json_unescape(body) ==
    IF body = <<>> THEN Return(<<>>)
    ELSE IF Head(body) \in {"\"", "\n", "\r", "\t"}
    THEN Raise("JSONDecodeError")
    ELSE IF Head(body) = "\\"
    THEN IF Len(body) < 2 \/ body[2] \notin DOMAIN json_escapes
         THEN Raise("JSONDecodeError")
         ELSE LET rest == json_unescape(SubSeq(body, 3, Len(body)))
              IN  IF rest.exc # "none" THEN rest
                  ELSE Return(<<json_escapes[body[2]]>> \o rest.value)
    ELSE LET rest == json_unescape(Tail(body))
         IN  IF rest.exc # "none" THEN rest
             ELSE Return(<<Head(body)>> \o rest.value)

\* json.load of one value of a record
json_load_value(x) ==
    IF "json" \in DOMAIN x THEN json_unescape(x.body) ELSE Return(x)

\* json.load(f): the decoded document, or JSONDecodeError
json_load(file) ==
    IF file = NotJson THEN Raise("JSONDecodeError")
    ELSE IF "schedule" \notin DOMAIN file THEN Return(file)
    ELSE
    LET records == file.schedule
        undecodable(i) == \E k \in DOMAIN records[i] :
                              json_load_value(records[i][k]).exc # "none"
    IN  IF \E i \in 1..Len(records) : undecodable(i)
        THEN Raise("JSONDecodeError")
        ELSE Return([schedule |->
                        [i \in 1..Len(records) |->
                            [k \in DOMAIN records[i] |->
                                json_load_value(records[i][k]).value]]])

\* json.dump({"schedule": entries}, f, ensure_ascii=False, indent=2)
json_dump(entries) ==
    [schedule |->
        [i \in 1..Len(entries) |->
            [k \in DOMAIN entries[i] |-> JsonString(json_escape(entries[i][k]))]]]

\* what a load that validated every entry returns and stores
load_succeeded(schedule_entries) ==
    [result |-> [status |-> "success", schedule |-> schedule_entries],
     schedule |-> schedule_entries]

\* the end of both loaders, given the outcome of _validate_entry for each
\* entry: the first exception becomes the error returned
load_entries(validated, old_schedule, message) ==
    IF \E i \in 1..Len(validated) : validated[i].exc # "none"
    THEN [result |-> [status |-> "error", message |-> message],
          schedule |-> stored_on_error(validated, old_schedule)]
    ELSE load_succeeded([i \in 1..Len(validated) |-> validated[i].value])

\* load_from_json, lines 38-51, given what json.load returned
load_data(data, old_schedule) ==
    IF data.exc # "none"
    THEN [result |-> [status |-> "error", message |-> "Eroare la citirea JSON"],
          schedule |-> old_schedule]
    ELSE IF "schedule" \notin DOMAIN data.value
    THEN [result |-> [status |-> "error", message |-> "Eroare"],
          schedule |-> old_schedule]
    ELSE load_entries([i \in 1..Len(data.value.schedule) |->
                          _validate_entry(data.value.schedule[i])],
                      old_schedule, "Eroare")

\* ScheduleManager.load_from_json on the file's content: the returned dict
\* and the new value of self.schedule
load_from_json(file, old_schedule) == load_data(json_load(file), old_schedule)

\* ScheduleManager.export_to_json: the returned bool and the file written
export_to_json(entries) == [result |-> TRUE, file |-> json_dump(entries)]

-----------------------------------------------------------------------------
(* The csv module, on the characters of the file *)

\* csv.writer, QUOTE_MINIMAL: a field holding the delimiter, the quote
\* character or a character of the line terminator is quoted
needs_quotes(field) ==
    \E i \in 1..Len(field) : field[i] \in {",", "\"", "\r", "\n"}

\* doublequote=True: each quote character inside a quoted field is doubled
RECURSIVE double_quotes(_)
double_quotes(field) ==
    IF field = <<>> THEN <<>>
    ELSE (IF Head(field) = "\"" THEN <<"\"", "\"">> ELSE <<Head(field)>>)
         \o double_quotes(Tail(field))

csv_field(field) ==
    IF needs_quotes(field)
    THEN <<"\"">> \o double_quotes(field) \o <<"\"">>
    ELSE field

\* writer.writerow(fields): the fields joined by "," and ended by "\r\n"
RECURSIVE csv_join(_)
csv_join(fields) ==
    IF Len(fields) = 1 THEN csv_field(fields[1])
    ELSE csv_field(Head(fields)) \o <<",">> \o csv_join(Tail(fields))

writerow(fields) == csv_join(fields) \o <<"\r", "\n">>

\* open(file_path, 'r') without newline='': "\r\n" and "\r" are read as "\n"
RECURSIVE universal_newlines(_)
universal_newlines(text) ==
    LET returns == {i \in 1..Len(text) : text[i] = "\r"}
        first == CHOOSE i \in returns : \A j \in returns : i <= j
    IN  IF returns = {} THEN text
        ELSE SubSeq(text, 1, first - 1) \o <<"\n">>
             \o universal_newlines(
                    SubSeq(text,
                           IF first < Len(text) /\ text[first + 1] = "\n"
                           THEN first + 2 ELSE first + 1,
                           Len(text)))

\* csv.reader with the default dialect (not strict), field by field.

\* the index of the first "," or "\n" at or after `from`, Len(text) + 1 if none
terminator(text, from) ==
    LET ends == {k \in from..Len(text) : text[k] \in {",", "\n"}}
    IN  IF ends = {} THEN Len(text) + 1
        ELSE CHOOSE k \in ends : \A other \in ends : k <= other

\* the number of quote characters in text[from..to]
quotes(text, from, to) == Cardinality({k \in from..to : text[k] = "\""})

\* text[from..to] of a quoted field with each doubled quote read as one: the
\* second quote of every pair is dropped
undoubled(text, from, to) ==
    LET kept == {k \in from..to :
                     text[k] # "\"" \/ quotes(text, from, k) % 2 = 1}
    IN  [n \in 1..Cardinality(kept) |->
            text[CHOOSE k \in kept : Cardinality({q \in kept : q <= k}) = n]]

\* the field that starts at text[i] and the index of the "," or "\n" that
\* ends it. A quoted field ends at the first quote that is not doubled; what
\* follows that quote up to the terminator is kept as it is. A quoted field
\* that is never closed runs to the end of the text.
field_at(text, i) ==
    IF text[i] = "\""
    THEN LET closers == {j \in (i + 1)..Len(text) :
                             /\ text[j] = "\""
                             /\ quotes(text, i + 1, j) % 2 = 1
                             /\ (j = Len(text) \/ text[j + 1] # "\"")}
         IN  IF closers = {}
             THEN [value |-> undoubled(text, i + 1, Len(text)),
                   next |-> Len(text) + 1]
             ELSE LET j == CHOOSE c \in closers : \A other \in closers : c <= other
                      k == terminator(text, j + 1)
                  IN  [value |-> undoubled(text, i + 1, j - 1)
                                 \o SubSeq(text, j + 1, k - 1),
                       next |-> k]
    ELSE [value |-> SubSeq(text, i, terminator(text, i) - 1),
          next |-> terminator(text, i)]

\* the rows of the text from text[i] on; fresh means a record starts at i.
\* A blank line is the row <<>>.
RECURSIVE csv_parse(_, _, _, _, _)
\* the rows once the field that starts a parse step is read
after_field(text, row, rows, field) ==
    IF field.next > Len(text)
    THEN Append(rows, Append(row, field.value))
    ELSE IF text[field.next] = ","
    THEN csv_parse(text, field.next + 1, Append(row, field.value), rows, FALSE)
    ELSE csv_parse(text, field.next + 1, <<>>,
                   Append(rows, Append(row, field.value)), TRUE)

csv_parse(text, i, row, rows, fresh) ==
    IF i > Len(text)
    THEN IF fresh THEN rows ELSE Append(rows, Append(row, <<>>))
    ELSE IF fresh /\ text[i] = "\n"
    THEN csv_parse(text, i + 1, <<>>, Append(rows, <<>>), TRUE)
    ELSE after_field(text, row, rows, field_at(text, i))

csv_reader(text) == csv_parse(text, 1, <<>>, <<>>, TRUE)

\* the column names ScheduleManager uses
fieldnames ==
    [day |-> <<"d","a","y">>, time |-> <<"t","i","m","e">>,
     subject |-> <<"s","u","b","j","e","c","t">>,
     location |-> <<"l","o","c","a","t","i","o","n">>]

\* `key in row` for a row of csv.DictReader with the given header
in_row(header, key) == \E i \in 1..Len(header) : header[i] = fieldnames[key]

\* row.get(key, "").strip() for a row of csv.DictReader: a column the header
\* lacks gives the default "", a column the row is too short for gives None,
\* and None.strip() is an AttributeError
get_stripped(header, row, key) ==
    IF ~in_row(header, key) THEN Return(<<>>)
    ELSE LET last == CHOOSE i \in 1..Len(header) :
                         /\ header[i] = fieldnames[key]
                         /\ \A j \in (i + 1)..Len(header) :
                                header[j] # fieldnames[key]
         IN  IF last > Len(row) THEN Raise("AttributeError")
             ELSE Return(Strip(row[last]))

\* lines 74-81 given the four stripped values: the validated entry or the
\* first exception
validate_row(day, time, subject, location) ==
    IF day.exc # "none" THEN day
    ELSE IF time.exc # "none" THEN time
    ELSE IF subject.exc # "none" THEN subject
    ELSE IF location.exc # "none" THEN location
    ELSE _validate_entry([day |-> day.value, time |-> time.value,
                          subject |-> subject.value,
                          location |-> location.value])

\* ScheduleManager.load_from_csv, lines 74-81, for one row
csv_entry(header, row) ==
    validate_row(get_stripped(header, row, "day"),
                 get_stripped(header, row, "time"),
                 get_stripped(header, row, "subject"),
                 get_stripped(header, row, "location"))

\* csv.DictReader: the first row is the header, blank rows are skipped
DictReader(rows) ==
    LET nonblank(row) == row # <<>>
    IN  IF rows = <<>> THEN <<>> ELSE SelectSeq(Tail(rows), nonblank)

\* load_from_csv, lines 72-85, given the rows csv.reader yields
load_rows(rows, records, old_schedule) ==
    load_entries([i \in 1..Len(records) |-> csv_entry(rows[1], records[i])],
                 old_schedule, "Eroare la citirea CSV")

load_reader(rows, old_schedule) == load_rows(rows, DictReader(rows), old_schedule)

\* ScheduleManager.load_from_csv on the file's text: the returned dict and
\* the new value of self.schedule
load_from_csv(text, old_schedule) ==
    load_reader(csv_reader(universal_newlines(text)), old_schedule)

\* the rows export_to_csv writes after the header
RECURSIVE csv_rows(_)
csv_rows(entries) ==
    IF entries = <<>> THEN <<>>
    ELSE writerow(<<Head(entries).day, Head(entries).time,
                    Head(entries).subject, Head(entries).location>>)
         \o csv_rows(Tail(entries))

\* ScheduleManager.export_to_csv: the returned bool and the file written;
\* an empty schedule returns False after open() has created an empty file
export_to_csv(entries) ==
    IF entries = <<>> THEN [result |-> FALSE, file |-> <<>>]
    ELSE [result |-> TRUE,
          file |-> writerow(<<fieldnames.day, fieldnames.time,
                              fieldnames.subject, fieldnames.location>>)
                   \o csv_rows(entries)]

-----------------------------------------------------------------------------
(* DataProcessor.merge_schedule_with_weather *)

\* lines 47-66: the enriched copy of one entry, or the exception that
\* _find_weather_for_entry lets through
enrich(entry, data, reference_date) ==
    LET date == _calculate_entry_date(entry.day, reference_date)
    IN  IF date # None
        THEN LET weather == _find_weather_for_entry(date.v, entry.time, data)
             IN  IF weather.exc # "none" THEN weather
                 ELSE Return(("weather" :> weather.value)
                             @@ ("date" :> IsoDate(date.v)) @@ entry)
        ELSE Return(("weather" :> None) @@ ("date" :> None) @@ entry)

\* lines 46-70: every entry enriched and appended in order
merge_loop(schedule_entries, data, reference_date) ==
    LET enriched == [i \in 1..Len(schedule_entries) |->
                        enrich(schedule_entries[i], data, reference_date)]
        failed == {i \in 1..Len(enriched) : enriched[i].exc # "none"}
    IN  IF failed # {}
        THEN enriched[CHOOSE i \in failed : \A j \in failed : i <= j]
        ELSE Return([i \in 1..Len(enriched) |-> enriched[i].value])

\* the loop appending only the entries whose date could be computed
merge_dropping_undated(schedule_entries, data, reference_date) ==
    LET all == merge_loop(schedule_entries, data, reference_date)
        dated(e) == e.date # None
    IN  IF all.exc # "none" THEN all
        ELSE Return(SelectSeq(all.value, dated))

\* DataProcessor.merge_schedule_with_weather, with today = reference_date
merge_schedule_with_weather(schedule_entries, data, reference_date) ==
    merge_loop(schedule_entries, data, reference_date)

-----------------------------------------------------------------------------
(* DataProcessor.calculate_statistics *)

RECURSIVE Gcd(_, _)
Gcd(a, b) == IF b = 0 THEN a ELSE Gcd(b, a % b)

\* the float a / b for b > 0, held as the fraction in lowest terms
Quotient(a, b) ==
    LET g == Gcd(Abs(a), b)
    IN  [type |-> "num", num |-> a \div g, den |-> b \div g]

RECURSIVE SeqSum(_)
SeqSum(q) == IF q = <<>> THEN 0 ELSE Head(q) + SeqSum(Tail(q))

SeqMax(q) == CHOOSE x \in {q[i] : i \in 1..Len(q)} :
                 \A i \in 1..Len(q) : q[i] <= x

SeqMin(q) == CHOOSE x \in {q[i] : i \in 1..Len(q)} :
                 \A i \in 1..Len(q) : q[i] >= x

\* line 311 as `if temp:`, which also leaves out a temperature of 0
keeps_nonzero_temperature(temp) == temp # None /\ temp.v # 0

\* line 311: if temp is not None
keeps_temperature(temp) == temp # None

\* line 318 reading the probability in place of the amount
precipitation_probability_of(weather) ==
    Get(weather, "precipitation_probability", Num(0))

\* line 318: precip = weather.get("precipitation", 0)
precipitation_of(weather) == Get(weather, "precipitation", Num(0))

\* lines 305-319: the loop from entry i on; temperatures is the list so far
RECURSIVE statistics_loop(_, _, _, _, _)
statistics_loop(entries, i, temperatures, rainy_count, total_precip) ==
    IF i > Len(entries)
    THEN Return([temperatures |-> temperatures, rainy_count |-> rainy_count,
                 total_precip |-> total_precip])
    ELSE
    LET weather == Get(entries[i], "weather", None)
    IN  IF Falsy(weather)
        THEN statistics_loop(entries, i + 1, temperatures, rainy_count,
                             total_precip)
        ELSE
        LET temp == Get(weather, "temperature", None)
            temperatures_ == IF keeps_temperature(temp)
                             THEN Append(temperatures, temp.v)
                             ELSE temperatures
            is_rainy == detect_rain_conditions(weather)
            precip == precipitation_of(weather)
        IN  IF is_rainy.exc # "none" THEN is_rainy
            \* total_precip += precip
            ELSE IF precip.type # "num" THEN Raise("TypeError")
            ELSE statistics_loop(entries, i + 1, temperatures_,
                                 IF is_rainy.value[1] THEN rainy_count + 1
                                 ELSE rainy_count,
                                 total_precip + precip.v)

\* DataProcessor.calculate_statistics
calculate_statistics(entries) ==
    IF entries = <<>>
    THEN Return([avg_temperature |-> None, max_temperature |-> None,
                 min_temperature |-> None, rainy_periods |-> Num(0),
                 total_precipitation |-> Num(0)])
    ELSE
    LET loop == statistics_loop(entries, 1, <<>>, 0, 0)
    IN  IF loop.exc # "none" THEN loop
        ELSE
        LET temperatures == loop.value.temperatures
        IN  Return([avg_temperature |->
                        IF temperatures # <<>>
                        THEN Quotient(SeqSum(temperatures), Len(temperatures))
                        ELSE None,
                    max_temperature |->
                        IF temperatures # <<>>
                        THEN Num(SeqMax(temperatures)) ELSE None,
                    min_temperature |->
                        IF temperatures # <<>>
                        THEN Num(SeqMin(temperatures)) ELSE None,
                    rainy_periods |-> Num(loop.value.rainy_count),
                    total_precipitation |-> Num(loop.value.total_precip)])

-----------------------------------------------------------------------------
(* DataProcessor.filter_entries_by_date_range *)

\* the test `start_date <= entry_date < end_date`
in_half_open_range(entry, start_date, end_date) ==
    IF "date" \notin DOMAIN entry \/ entry.date = None THEN FALSE
    ELSE LET parsed == fromisoformat(entry.date)
         IN  IF parsed.exc # "none" THEN FALSE
             ELSE /\ start_date <= parsed.value.at.date
                  /\ parsed.value.at.date < end_date

\* lines 197-206, for one entry: whether it is appended to `filtered`
in_date_range(entry, start_date, end_date) ==
    IF "date" \notin DOMAIN entry \/ entry.date = None THEN FALSE
    ELSE LET parsed == fromisoformat(entry.date)
         IN  IF parsed.exc # "none" THEN FALSE      \* ValueError, TypeError
             ELSE /\ start_date <= parsed.value.at.date
                  /\ parsed.value.at.date <= end_date

\* DataProcessor.filter_entries_by_date_range
filter_entries_by_date_range(entries, start_date, end_date) ==
    LET kept(entry) == in_date_range(entry, start_date, end_date)
    IN  Return(SelectSeq(entries, kept))

\* DataProcessor.get_entries_for_tomorrow, with datetime.now() on reference_date
get_entries_for_tomorrow(entries, reference_date) ==
    filter_entries_by_date_range(entries, reference_date + 1,
                                 reference_date + 1)

-----------------------------------------------------------------------------
(* Objects: the dicts and lists the merge is given and the ones it makes *)

\* a reference to the object heap[i]
Ref(i) == [type |-> "ref", id |-> i]

\* a list object holding references
List(items) == [type |-> "list", items |-> items]

\* a dict that shares its object with the caller: `enriched_entry = entry`
alias(h, id) == [heap |-> h, ref |-> id]

\* dict.copy(): a new dict holding the same items
copy(h, id) == [heap |-> Append(h, h[id]), ref |-> Len(h) + 1]

\* d[key] = value
SetItem(h, id, key, value) == [h EXCEPT ![id] = (key :> value) @@ h[id]]

\* l.append(x)
ListAppend(h, id, x) == [h EXCEPT ![id].items = Append(@, x)]

\* the forecast dict heap[id] with its hourly list read through
forecast_value(h, id) ==
    IF "hourly" \notin DOMAIN h[id] THEN h[id]
    ELSE LET items == h[h[id].hourly.id].items
         IN  [hourly |-> [i \in 1..Len(items) |-> h[items[i]]],
              daily |-> <<>>]

\* an enriched entry with its "weather" read through
entry_value(h, id) ==
    IF "weather" \in DOMAIN h[id] /\ h[id].weather.type = "ref"
    THEN [k \in DOMAIN h[id] \ {"weather_data"} |->
             IF k = "weather" THEN h[h[id].weather.id] ELSE h[id][k]]
    ELSE h[id]

\* the sample object whose content _find_weather_for_entry returned: the
\* function returns the object itself, not a copy
sample_ref(h, weather, found) ==
    IF found.exc # "none" \/ found.value = None THEN found
    ELSE LET items == h[h[weather].hourly.id].items
             first == CHOOSE i \in 1..Len(items) :
                          /\ h[items[i]] = found.value
                          /\ \A j \in 1..(i - 1) : h[items[j]] # found.value
         IN  Return(Ref(items[first]))

find_weather_ref(h, date, range, weather) ==
    sample_ref(h, weather,
               _find_weather_for_entry(date, range, forecast_value(h, weather)))

\* lines 61-66: enriched_entry["weather"] and enriched_entry["date"] set in
\* the copy, unless the search raised
set_weather_and_date(enriched_entry, date, matched) ==
    [heap |-> IF matched.exc # "none" THEN enriched_entry.heap
              ELSE SetItem(SetItem(enriched_entry.heap, enriched_entry.ref,
                                   "weather", matched.value),
                           enriched_entry.ref, "date",
                           IF date # None THEN IsoDate(date.v) ELSE None),
     ref |-> enriched_entry.ref,
     result |-> matched]

\* lines 53-59: the sample for the entry's date, None without a date
find_for_date(enriched_entry, entry, weather, date) ==
    set_weather_and_date(
        enriched_entry, date,
        IF date # None
        THEN find_weather_ref(enriched_entry.heap, date.v,
                              enriched_entry.heap[entry].time, weather)
        ELSE Return(None))

\* lines 47-66 for one entry, enriched_entry being its copy
enrich_object(enriched_entry, entry, weather, reference_date) ==
    find_for_date(enriched_entry, entry, weather,
                  _calculate_entry_date(enriched_entry.heap[entry].day,
                                        reference_date))

\* DataProcessor.merge_schedule_with_weather, lines 46-70, on objects:
\* entries holds the references given, enriched_list is the new list
RECURSIVE merge_objects(_, _, _, _, _, _)
\* line 68: the enriched entry appended, then the entries that follow
append_and_go_on(enriched, entries, i, enriched_list, weather, reference_date) ==
    IF enriched.result.exc # "none"
    THEN [heap |-> enriched.heap, result |-> enriched.result]
    ELSE merge_objects(ListAppend(enriched.heap, enriched_list, enriched.ref),
                       entries, i + 1, enriched_list, weather, reference_date)

merge_objects(h, entries, i, enriched_list, weather, reference_date) ==
    IF i > Len(entries)
    THEN [heap |-> h, result |-> Return(Ref(enriched_list))]
    ELSE append_and_go_on(
             enrich_object(copy(h, entries[i]), entries[i], weather,
                           reference_date),
             entries, i, enriched_list, weather, reference_date)

\* enriched_entries = []; the loop; return enriched_entries
merge_schedule_with_weather_objects(h, schedule_entries, weather, reference_date) ==
    merge_objects(Append(h, List(<<>>)), h[schedule_entries].items, 1,
                  Len(h) + 1, weather, reference_date)

\* MainWindow.on_weather_data_received, lines 290-299: the entries of
\* tomorrow whose sample is rainy get the key "weather_data"
RECURSIVE mark_risky(_, _, _)
\* lines 296-297 for an entry with a sample
mark_if_rainy(h, tomorrow_entries, i, matched, detected) ==
    IF detected.exc # "none" THEN [heap |-> h, result |-> detected]
    ELSE IF detected.value[1]
    THEN mark_risky(SetItem(h, tomorrow_entries[i], "weather_data", matched),
                    tomorrow_entries, i + 1)
    ELSE mark_risky(h, tomorrow_entries, i + 1)

\* lines 292-295 for an entry whose "weather" is matched
detect_and_mark(h, tomorrow_entries, i, matched) ==
    IF matched = None \/ Falsy(h[matched.id])
    THEN mark_risky(h, tomorrow_entries, i + 1)
    ELSE mark_if_rainy(h, tomorrow_entries, i, matched,
                       detect_rain_conditions(h[matched.id]))

mark_risky(h, tomorrow_entries, i) ==
    IF i > Len(tomorrow_entries) THEN [heap |-> h, result |-> Return(None)]
    ELSE detect_and_mark(h, tomorrow_entries, i,
                         Get(h[tomorrow_entries[i]], "weather", None))

-----------------------------------------------------------------------------
(* Bounds and inputs *)

\* 2025-01-06, a Monday
FirstDay == 739257

\* how many consecutive days `today` ranges over
Days == 8

Today == FirstDay .. (FirstDay + Days - 1)

DayNames ==
    { <<"L","u","n","i">>, <<"l","u","n","i">>, <<"L","U","N","I">>,
      <<" ","L","u","n","i","\t">>,
      <<"M","a","r","t,","i">>, <<"M","A","R","T,","I">>,
      <<"M","i","e","r","c","u","r","i">>,
      <<"J","o","i">>, <<"j","O","i"," ">>,
      <<"V","i","n","e","r","i">>,
      <<"S","a^","m","b","a(","t","a(">>,
      <<"S","A^","M","B","A(","T","A(">>,
      <<"D","u","m","i","n","i","c","a(">>,
      <<"M","a","r","t","i">>, <<"S","a","m","b","a","t","a">>,
      <<"M","o","n","d","a","y">>, <<"L","u"," ","n","i">>, <<>> }


-----------------------------------------------------------------------------
(* State before any operation has run *)

NotCalled == [exc |-> "not called"]

NoFile == File("", <<>>)

\* no object allocated yet
IdleHeap ==
    /\ heap = <<>>
    /\ heap_before = <<>>
    /\ schedule_ref = None
    /\ weather_ref = None
    /\ enriched_ref = NotCalled

\* MainWindow.__init__: self.schedule_data = None; nothing exported yet
IdleFiles ==
    /\ schedule_data = None
    /\ disk = NoFile
    /\ exported = <<>>
    /\ export_result = NotCalled

\* WeatherService.__init__
IdleService ==
    /\ now = 0
    /\ city_name = "Bucuresti"
    /\ latitude = "44.4268"
    /\ longitude = "26.1025"
    /\ temperature_unit = <<"c","e","l","s","i","u","s">>
    /\ cached_weather = None
    /\ cache_timestamp = None
    /\ pending_days_request = 0
    /\ network = <<>>
    /\ timers = <<>>
    /\ signals = <<>>
    /\ args = NotCalled
    /\ weather_cache_file = None

\* MainWindow.__init__ (main_window.py:51-52, 109) with
\* NotificationManager.__init__ and start_automatic_checks(60)
IdleWindow ==
    /\ refresh_weather_button = FALSE
    /\ notifications_enabled = TRUE
    /\ check_interval = 60 * 60000
    /\ check_timer = [active |-> TRUE, interval |-> 60 * 60000]
    /\ notification_history = <<>>
    /\ notifications = <<>>
    /\ filtered = NotCalled

\* _calculate_entry_date applied to one day name on one reference date
InitDate ==
    /\ pc = "init"
    /\ today \in Today
    /\ day_name \in DayNames
    /\ entry_date = None
    /\ time_range = <<>>
    /\ weather_data = None
    /\ closest_weather = NotCalled
    /\ weather_info = None
    /\ rain = NotCalled
    /\ raw_data = None
    /\ file_data = NoFile
    /\ load_result = NotCalled
    /\ schedule = <<>>
    /\ enriched_entries = NotCalled
    /\ statistics = NotCalled
    /\ IdleHeap /\ IdleFiles /\ IdleService /\ IdleWindow

\* entry_date = self._calculate_entry_date(entry["day"], today)
CalculateEntryDate ==
    /\ pc' = "calculate_entry_date"
    /\ entry_date' = _calculate_entry_date(day_name, today)
    /\ UNCHANGED <<today, day_name, time_range, weather_data, closest_weather,
                   weather_info, rain, raw_data, file_data, load_result,
                   schedule, enriched_entries, statistics>>
    /\ UNCHANGED <<heapVars, fileVars, serviceVars, windowVars>>

NextDate == CalculateEntryDate

SpecDate == InitDate /\ [][NextDate]_vars

-----------------------------------------------------------------------------
(* C1 *)

\* the seven Romanian weekday names, Monday first
RomanianWeekdays ==
    << <<"l","u","n","i">>, <<"m","a","r","t,","i">>,
       <<"m","i","e","r","c","u","r","i">>, <<"j","o","i">>,
       <<"v","i","n","e","r","i">>, <<"s","a^","m","b","a(","t","a(">>,
       <<"d","u","m","i","n","i","c","a(">> >>

\* C1: for every reference date and every day name that is one of the seven
\* Romanian weekday names once lowercased and trimmed, _calculate_entry_date
\* returns today + ((target_index - today.weekday()) mod 7): a date in
\* [today, today+6] that falls on the target weekday, and today itself when
\* the target weekday is today's.
C1_EntryDateIsNextOccurrence ==
    pc = "calculate_entry_date" =>
        \A target_index \in 0..6 :
            Strip(Lower(day_name)) = RomanianWeekdays[target_index + 1] =>
                /\ entry_date = Num(today + ((target_index - weekday(today)) % 7))
                /\ entry_date.v \in today .. (today + 6)
                /\ weekday(entry_date.v) = target_index
                /\ (target_index = weekday(today) => entry_date.v = today)

\* a padded, capitalised "Luni" resolved on a Monday is that same Monday
C1_Witness ==
    /\ pc = "calculate_entry_date"
    /\ day_name = <<" ","L","u","n","i","\t">>
    /\ weekday(today) = 0
    /\ entry_date = Num(today)


-----------------------------------------------------------------------------
(* _find_weather_for_entry applied to one date, time range and forecast *)

\* the longest hourly list
MaxHourly == 3

\* an hourly sample with every key process_weather_data sets
Sample(datetime, temperature, probability, precipitation, code) ==
    [datetime |-> datetime, temperature |-> temperature,
     precipitation_probability |-> probability,
     precipitation |-> precipitation, weather_code |-> code,
     weather_description |-> get_weather_description(code),
     wind_speed |-> Num(0)]

\* a dry sample at the given time of day
At(date, hour, minute, second, temperature) ==
    Sample(IsoNaive(date, hour, minute, second), Num(temperature),
           Num(0), Num(0), Num(0))

\* a sample without the "datetime" key
Undated == [temperature |-> Num(70), precipitation |-> Num(0)]

FindSamples ==
    { At(FirstDay, 7, 30, 0, 10), At(FirstDay, 8, 0, 0, 20),
      At(FirstDay, 8, 0, 0, 25), At(FirstDay, 8, 30, 0, 30),
      At(FirstDay, 8, 30, 1, 35), At(FirstDay, 9, 0, 0, 40),
      At(FirstDay + 1, 8, 0, 0, 50),
      Sample(NotIso, Num(60), Num(0), Num(0), Num(0)),
      Undated }

\* all lists over S of length at most n
RECURSIVE SeqsUpTo(_, _)
SeqsUpTo(S, n) ==
    IF n = 0 THEN {<<>>}
    ELSE LET shorter == SeqsUpTo(S, n - 1)
         IN  shorter \cup {Append(q, x) : q \in shorter, x \in S}

\* a forecast data set with the given hourly list
Forecast(hourly) == [hourly |-> hourly, daily |-> <<>>]

FindForecasts ==
    {None, EmptyDict, [daily |-> <<>>]}
    \cup {Forecast(h) : h \in SeqsUpTo(FindSamples, MaxHourly)}

TimeRanges ==
    { <<"0","8",":","0","0","-","1","0",":","0","0">>,
      <<" ","8",":","0","0"," ","-"," ","1","0",":","0","0">>,
      <<"0","8",":","3","0","-","0","9",":","0","0">>,
      <<"8",":","5","-","9",":","0">>,
      <<"0","8",":","0","0">>,
      <<"a","b","-","c","d">>,
      <<"2","4",":","0","0","-","2","5",":","0","0">>,
      <<"-","1","0",":","0","0">> }

InitFind ==
    /\ pc = "init"
    /\ today = FirstDay
    /\ day_name = <<>>
    /\ entry_date \in {Num(FirstDay), Num(FirstDay + 1)}
    /\ time_range \in TimeRanges
    /\ weather_data \in FindForecasts
    /\ closest_weather = NotCalled
    /\ weather_info = None
    /\ rain = NotCalled
    /\ raw_data = None
    /\ file_data = NoFile
    /\ load_result = NotCalled
    /\ schedule = <<>>
    /\ enriched_entries = NotCalled
    /\ statistics = NotCalled
    /\ IdleHeap /\ IdleFiles /\ IdleService /\ IdleWindow

\* weather_info = self._find_weather_for_entry(entry_date, entry["time"], weather_data)
FindWeatherForEntry ==
    /\ entry_date # None
    /\ pc' = "find_weather_for_entry"
    /\ closest_weather' =
           _find_weather_for_entry(entry_date.v, time_range, weather_data)
    /\ UNCHANGED <<today, day_name, entry_date, time_range, weather_data,
                   weather_info, rain, raw_data, file_data, load_result,
                   schedule, enriched_entries, statistics>>
    /\ UNCHANGED <<heapVars, fileVars, serviceVars, windowVars>>

NextFind == FindWeatherForEntry

SpecFind == InitFind /\ [][NextFind]_vars

-----------------------------------------------------------------------------
(* C2, C3 *)

\* the hourly list of a forecast data set, empty when it has none
HourlyOf(data) ==
    IF Falsy(data) \/ "hourly" \notin DOMAIN data THEN <<>> ELSE data.hourly

\* the sample's "datetime" is present and parses
Parseable(sample) ==
    /\ "datetime" \in DOMAIN sample
    /\ fromisoformat(sample.datetime).exc = "none"

\* seconds between a parseable sample and the target
Distance(sample, target) ==
    Abs(total_seconds(fromisoformat(sample.datetime).value.at, target))

\* the start of the range, when it has one that parses
StartOf(range) ==
    IF Contains(range, "-")
    THEN strptime_HM(Strip(Split(range, "-")[1]))
    ELSE Raise("ValueError")

HasTarget == StartOf(time_range).exc = "none"

\* resolved date + start time of the range
Target == DateTime(entry_date.v, 60 * StartOf(time_range).value)

\* the positions of the parseable samples within the window
InWindow ==
    {j \in 1..Len(HourlyOf(weather_data)) :
        /\ HasTarget
        /\ Parseable(HourlyOf(weather_data)[j])
        /\ Distance(HourlyOf(weather_data)[j], Target) <= 1800}

C3_ClosestEarliestSample ==
    (pc = "find_weather_for_entry" /\ closest_weather.exc = "none") =>
        LET hourly == HourlyOf(weather_data)
            found == closest_weather.value
        IN  /\ found # None =>
                \E i \in 1..Len(hourly) :
                    /\ hourly[i] = found
                    /\ \A j \in 1..Len(hourly) :
                           Parseable(hourly[j]) =>
                               /\ Distance(hourly[j], Target)
                                      >= Distance(found, Target)
                               /\ j < i => Distance(hourly[j], Target)
                                               > Distance(found, Target)
            /\ (\E j \in InWindow : Distance(hourly[j], Target) = 0) =>
                   /\ found # None
                   /\ Distance(found, Target) = 0

\* two samples 1800 seconds either side of 08:30: the one listed first wins
C3_Witness ==
    /\ pc = "find_weather_for_entry"
    /\ entry_date = Num(FirstDay)
    /\ time_range = <<"0","8",":","3","0","-","0","9",":","0","0">>
    /\ weather_data = Forecast(<<At(FirstDay, 9, 0, 0, 40),
                                 At(FirstDay, 8, 0, 0, 20)>>)
    /\ closest_weather = Return(At(FirstDay, 9, 0, 0, 40))


-----------------------------------------------------------------------------
(* detect_rain_conditions applied to one sample of numeric fields *)

\* a key the dict lacks, a key the dict holds with value v
NoKey == [present |-> FALSE]

Key(v) == [present |-> TRUE, value |-> v]

\* the dict holding the keys that are present
Dict(full) ==
    [k \in {key \in DOMAIN full : full[key].present} |-> full[k].value]

RainCodes ==
    {NoKey} \cup {Key(Num(c)) : c \in {0, 61, 63, 65, 80, 81, 82, 95}}

RainAmounts ==
    {NoKey} \cup {Key(Num(a)) : a \in {0, 1, 10, 11, 50, 51, 62}}

RainProbabilities == {NoKey} \cup {Key(Num(q)) : q \in {0, 30, 31, 100}}

RainSamples ==
    {None, EmptyDict}
    \cup {Dict([datetime |-> Key(IsoNaive(FirstDay, 8, 0, 0)),
                weather_code |-> c, precipitation |-> a,
                precipitation_probability |-> q]) :
            c \in RainCodes, a \in RainAmounts, q \in RainProbabilities}

InitRain ==
    /\ pc = "init"
    /\ today = FirstDay
    /\ day_name = <<>>
    /\ entry_date = None
    /\ time_range = <<>>
    /\ weather_data = None
    /\ closest_weather = NotCalled
    /\ weather_info \in RainSamples
    /\ rain = NotCalled
    /\ raw_data = None
    /\ file_data = NoFile
    /\ load_result = NotCalled
    /\ schedule = <<>>
    /\ enriched_entries = NotCalled
    /\ statistics = NotCalled
    /\ IdleHeap /\ IdleFiles /\ IdleService /\ IdleWindow

\* is_rainy, severity = self.data_processor.detect_rain_conditions(weather_info)
DetectRain ==
    /\ pc' = "detect_rain_conditions"
    /\ rain' = detect_rain_conditions(weather_info)
    /\ UNCHANGED <<today, day_name, entry_date, time_range, weather_data,
                   closest_weather, weather_info, raw_data, file_data,
                   load_result, schedule, enriched_entries, statistics>>
    /\ UNCHANGED <<heapVars, fileVars, serviceVars, windowVars>>

NextRain == DetectRain

SpecRain == InitRain /\ [][NextRain]_vars

-----------------------------------------------------------------------------
(* C4, C5 *)

\* the number a sample holds under a key, 0 when the sample or the key is
\* missing
Field(sample, key) ==
    IF Falsy(sample) \/ key \notin DOMAIN sample THEN 0 ELSE sample[key].v

\* the rain condition as the claim words it
Rainy(sample) ==
    \/ Field(sample, "weather_code") \in {61, 63, 65, 80, 81, 82}
    \/ Field(sample, "precipitation") > 0
    \/ Field(sample, "precipitation_probability") > 30

-----------------------------------------------------------------------------
(* detect_rain_conditions applied to the samples of a processed reply *)

\* the longest "time" array of a reply
MaxTimes == 2

\* the parallel arrays of a reply: absent, shorter than "time", holding null
RawTemperatures == {NoKey, Key(<<Num(50), None>>)}

RawProbabilities ==
    {NoKey, Key(<<>>), Key(<<Num(0), Num(40)>>), Key(<<None, Num(0)>>)}

RawAmounts ==
    {NoKey, Key(<<>>), Key(<<Num(0), Num(62)>>), Key(<<None, Num(0)>>),
     Key(<<Num(3)>>)}

RawCodes ==
    {NoKey, Key(<<Num(0), Num(61)>>), Key(<<Num(63), None>>), Key(<<Num(3)>>)}

RawDaily ==
    {NoKey,
     Key([time |-> <<[type |-> "str", form |-> "iso", date |-> FirstDay,
                      hour |-> 0, minute |-> 0, second |-> 0]>>,
          temperature_2m_max |-> <<Num(80)>>, weathercode |-> <<Num(61)>>])}

RawTimes ==
    SeqsUpTo({IsoNaive(FirstDay, 8, 0, 0), IsoNaive(FirstDay, 9, 0, 0)},
             MaxTimes)

RawHourly ==
    {NoKey}
    \cup {Key(Dict([time |-> Key(t), temperature_2m |-> temp,
                    precipitation_probability |-> q, precipitation |-> a,
                    weathercode |-> c,
                    windspeed_10m |-> Key(<<Num(120)>>)])) :
            t \in RawTimes, temp \in RawTemperatures,
            q \in RawProbabilities, a \in RawAmounts, c \in RawCodes}

RawReplies ==
    {Dict([latitude |-> Key(Num(444)), longitude |-> Key(Num(261)),
           daily |-> d, hourly |-> h]) : d \in RawDaily, h \in RawHourly}

InitRaw ==
    /\ pc = "init"
    /\ today = FirstDay
    /\ day_name = <<>>
    /\ entry_date = None
    /\ time_range = <<>>
    /\ weather_data = None
    /\ closest_weather = NotCalled
    /\ weather_info = None
    /\ rain = NotCalled
    /\ raw_data \in RawReplies
    /\ file_data = NoFile
    /\ load_result = NotCalled
    /\ schedule = <<>>
    /\ enriched_entries = NotCalled
    /\ statistics = NotCalled
    /\ IdleHeap /\ IdleFiles /\ IdleService /\ IdleWindow

\* processed_data = self.process_weather_data(weather_json)
ProcessWeatherData ==
    /\ pc = "init"
    /\ pc' = "process_weather_data"
    /\ weather_data' = process_weather_data(raw_data)
    /\ UNCHANGED <<today, day_name, entry_date, time_range, closest_weather,
                   weather_info, rain, raw_data, file_data, load_result,
                   schedule, enriched_entries, statistics>>
    /\ UNCHANGED <<heapVars, fileVars, serviceVars, windowVars>>

\* detect_rain_conditions called with one of the processed hourly samples
DetectRainOnSample ==
    /\ pc = "process_weather_data"
    /\ \E i \in 1..Len(weather_data.hourly) :
           /\ weather_info' = weather_data.hourly[i]
           /\ rain' = detect_rain_conditions(weather_data.hourly[i])
    /\ pc' = "detect_rain_conditions"
    /\ UNCHANGED <<today, day_name, entry_date, time_range, weather_data,
                   closest_weather, raw_data, file_data, load_result,
                   schedule, enriched_entries, statistics>>
    /\ UNCHANGED <<heapVars, fileVars, serviceVars, windowVars>>

NextRaw == ProcessWeatherData \/ DetectRainOnSample

SpecRaw == InitRaw /\ [][NextRaw]_vars

-----------------------------------------------------------------------------
(* C6 *)

\* C6: for every hourly sample process_weather_data can produce,
\* detect_rain_conditions returns, without raising, one pair
\* (is_rainy, severity) with severity among none, light, moderate, heavy and
\* severity = "none" exactly when is_rainy is False.
C6_DetectRainTotal ==
    pc = "detect_rain_conditions" =>
        /\ rain.exc = "none"
        /\ rain.value \in {<<FALSE, "none">>, <<TRUE, "light">>,
                           <<TRUE, "moderate">>, <<TRUE, "heavy">>}


-----------------------------------------------------------------------------
(* A schedule file loaded, merged with a forecast, and summarised *)

\* the most records a schedule file holds
MaxEntries == 2

\* the longest hourly list of the merged forecasts
MaxSamples == 2

\* records of a schedule file: two valid ones (the second padded, in lower
\* case, with one-digit hours and no location), one with an unknown day
\* name, and three the loader rejects (empty subject, time without "-",
\* time with two "-")
FileRecords ==
    { [day |-> <<"L","u","n","i">>,
       time |-> <<"0","8",":","0","0","-","1","0",":","0","0">>,
       subject |-> <<"P","I","U">>,
       location |-> <<"C","3","0","9">>],
      [day |-> <<" ","m","a","r","t,","i","\t">>,
       time |-> <<" ","8",":","3","0"," ","-"," ","9",":","0","0"," ">>,
       subject |-> <<"S","O">>],
      [day |-> <<"M","o","n","d","a","y">>,
       time |-> <<"0","8",":","0","0","-","1","0",":","0","0">>,
       subject |-> <<"E","N">>,
       location |-> <<"A","1">>],
      [day |-> <<"L","u","n","i">>,
       time |-> <<"0","8",":","0","0","-","1","0",":","0","0">>,
       subject |-> <<>>,
       location |-> <<>>],
      [day |-> <<"J","o","i">>,
       time |-> <<"0","8","0","0">>,
       subject |-> <<"B","D">>],
      [day |-> <<"J","o","i">>,
       time |-> <<"0","8",":","0","0","-","0","9",":","0","0","-","1","0",":","0","0">>,
       subject |-> <<"B","D">>] }

ValidFileRecords == {r \in FileRecords : _validate_entry(r).exc = "none"}

ScheduleFiles ==
    {File("json", NotJson), File("json", [version |-> Num(1)])}
    \cup {File("json", json_dump(q)) : q \in SeqsUpTo(FileRecords, 1)}
    \cup {File("json", json_dump(q)) :
              q \in SeqsUpTo(ValidFileRecords, MaxEntries)}

\* Samples of the merged forecasts. With today = FirstDay + 2, a Wednesday,
\* "Luni" is FirstDay + 7 and "Marti" is FirstDay + 8.
MergeSamples ==
    { Sample(IsoNaive(FirstDay + 7, 8, 0, 0), Num(50), Num(0), Num(3), Num(61)),
      Sample(IsoNaive(FirstDay, 8, 0, 0), Num(0), Num(0), Num(62), Num(0)),
      Sample(IsoNaive(FirstDay + 8, 8, 30, 0), None, Num(40), Num(0), Num(3)),
      Sample(IsoNaive(FirstDay + 1, 8, 15, 0), Num(-25), Num(10), Num(0), Num(3)),
      Sample(NotIso, Num(90), Num(100), Num(99), Num(65)) }

MergeForecasts ==
    {EmptyDict} \cup {Forecast(h) : h \in SeqsUpTo(MergeSamples, MaxSamples)}

\* the days the merge is made on: a Monday and the Wednesday after it
MergeDays == {FirstDay, FirstDay + 2}

InitMergeWith(forecasts) ==
    /\ pc = "init"
    /\ today \in MergeDays
    /\ day_name = <<>>
    /\ entry_date = None
    /\ time_range = <<>>
    /\ weather_data \in forecasts
    /\ closest_weather = NotCalled
    /\ weather_info = None
    /\ rain = NotCalled
    /\ raw_data = None
    /\ file_data \in ScheduleFiles
    /\ load_result = NotCalled
    /\ schedule = <<>>
    /\ enriched_entries = NotCalled
    /\ statistics = NotCalled
    /\ IdleHeap /\ IdleFiles /\ IdleService /\ IdleWindow

InitMerge == InitMergeWith(MergeForecasts)

\* result = self.schedule_manager.load_from_json(file_path)
LoadFromJson ==
    /\ pc = "init"
    /\ pc' = "load_from_json"
    /\ load_result' = load_from_json(file_data.content, schedule).result
    /\ schedule' = load_from_json(file_data.content, schedule).schedule
    /\ UNCHANGED <<today, day_name, entry_date, time_range, weather_data,
                   closest_weather, weather_info, rain, raw_data, file_data,
                   enriched_entries, statistics>>
    /\ UNCHANGED <<heapVars, fileVars, serviceVars, windowVars>>

\* self.enriched_entries = self.data_processor.merge_schedule_with_weather(
\*     schedule_entries, weather_data), made once a schedule is loaded
MergeScheduleWithWeather ==
    /\ pc = "load_from_json"
    /\ load_result.status = "success"
    /\ pc' = "merge_schedule_with_weather"
    /\ enriched_entries' =
           merge_schedule_with_weather(schedule, weather_data, today)
    /\ UNCHANGED <<today, day_name, entry_date, time_range, weather_data,
                   closest_weather, weather_info, rain, raw_data, file_data,
                   load_result, schedule, statistics>>
    /\ UNCHANGED <<heapVars, fileVars, serviceVars, windowVars>>

\* stats = self.data_processor.calculate_statistics(self.enriched_entries)
CalculateStatistics ==
    /\ pc = "merge_schedule_with_weather"
    /\ enriched_entries.exc = "none"
    /\ pc' = "calculate_statistics"
    /\ statistics' = calculate_statistics(enriched_entries.value)
    /\ UNCHANGED <<today, day_name, entry_date, time_range, weather_data,
                   closest_weather, weather_info, rain, raw_data, file_data,
                   load_result, schedule, enriched_entries>>
    /\ UNCHANGED <<heapVars, fileVars, serviceVars, windowVars>>

NextMerge == LoadFromJson \/ MergeScheduleWithWeather \/ CalculateStatistics

SpecMerge == InitMerge /\ [][NextMerge]_vars

-----------------------------------------------------------------------------
(* C7 *)

\* the day name is none of the seven weekday names
UnknownDay(day) ==
    \A n \in 1..7 : Strip(Lower(day)) # RomanianWeekdays[n]

-----------------------------------------------------------------------------
(* C9, C10 *)

\* the positions of the entries that have a matched sample
Matched(entries) ==
    {i \in 1..Len(entries) :
        "weather" \in DOMAIN entries[i] /\ entries[i].weather # None}

\* the positions of the matched entries whose temperature is not null
WithTemperature(entries) ==
    {i \in Matched(entries) : entries[i].weather.temperature # None}

\* the sum of f[i] over the positions in S
RECURSIVE SumOver(_, _)
SumOver(f, S) ==
    IF S = {} THEN 0
    ELSE LET i == CHOOSE x \in S : TRUE
         IN  f[i] + SumOver(f, S \ {i})

TemperatureAt(entries) ==
    [i \in WithTemperature(entries) |-> entries[i].weather.temperature.v]

-----------------------------------------------------------------------------
(* The merge over forecasts whose datetime values are unusable *)

\* samples whose "datetime" is JSON null, or carries a UTC offset
UnusableSamples ==
    { Sample(None, Num(50), Num(0), Num(0), Num(0)),
      Sample(IsoAware(FirstDay, 8, 0, 0), Num(50), Num(0), Num(0), Num(0)) }

AnyForecasts ==
    {EmptyDict}
    \cup {Forecast(h) :
            h \in SeqsUpTo(MergeSamples \cup UnusableSamples, MaxSamples)}

InitMergeAny == InitMergeWith(AnyForecasts)

SpecMergeAny == InitMergeAny /\ [][NextMerge]_vars

\* C8: for every list of loaded schedule entries and every forecast data
\* set, also one with hourly samples whose datetime is missing, malformed or
\* otherwise unusable, merge_schedule_with_weather returns a result for all
\* entries instead of raising.
C8_MergeNeverFails ==
    pc = "merge_schedule_with_weather" =>
        /\ enriched_entries.exc = "none"
        /\ Len(enriched_entries.value) = Len(schedule)

-----------------------------------------------------------------------------
(* The handlers that merge and summarise, on objects *)

\* the most objects on the heap when a handler is entered
MaxObjects == 11

\* the entries the loader stores for the valid records
StoredEntries == {_validate_entry(r).value : r \in ValidFileRecords}

\* With today = FirstDay, a Monday: a rainy sample for "marti" 8:30 tomorrow
\* and a dry one for "Luni" 08:00 today; with today = FirstDay + 2: a rainy
\* one for "Luni" 08:00 next week.
ObjectSamples ==
    { Sample(IsoNaive(FirstDay + 1, 8, 30, 0), Num(40), Num(80), Num(12), Num(63)),
      Sample(IsoNaive(FirstDay, 8, 0, 0), Num(20), Num(0), Num(0), Num(0)),
      Sample(IsoNaive(FirstDay + 7, 8, 0, 0), Num(50), Num(0), Num(3), Num(61)) }

\* the heap holding a schedule list and a forecast: the entries, their list,
\* the samples, the hourly list, the daily list, the forecast dict
HeapOf(entries, samples) ==
    LET n == Len(entries)
        m == Len(samples)
    IN  entries
        \o <<List([i \in 1..n |-> i])>>
        \o samples
        \o <<List([i \in 1..m |-> n + 1 + i]), List(<<>>),
             [hourly |-> Ref(n + m + 2), daily |-> Ref(n + m + 3)]>>

InitObjects ==
    /\ pc = "init"
    /\ today \in MergeDays
    /\ day_name = <<>>
    /\ entry_date = None
    /\ time_range = <<>>
    /\ weather_data = None
    /\ closest_weather = NotCalled
    /\ weather_info = None
    /\ rain = NotCalled
    /\ raw_data = None
    /\ file_data = NoFile
    /\ load_result = NotCalled
    /\ schedule = <<>>
    /\ enriched_entries = NotCalled
    /\ statistics = NotCalled
    /\ \E entries \in SeqsUpTo(StoredEntries, MaxEntries),
          samples \in SeqsUpTo(ObjectSamples, MaxSamples) :
           /\ heap = HeapOf(entries, samples)
           /\ heap_before = heap
           /\ schedule_ref = Ref(Len(entries) + 1)
           /\ weather_ref = Ref(Len(heap))
    /\ enriched_ref = NotCalled
    /\ IdleFiles /\ IdleService /\ IdleWindow

\* the entries of the list object heap[list], read through
entry_values(h, list) ==
    [i \in 1..Len(h[list].items) |-> entry_value(h, h[list].items[i])]

\* the entries of the list object heap[list] dated tomorrow
entries_for_tomorrow(h, list, day) ==
    LET in_tomorrow(e) == in_date_range(h[e], day + 1, day + 1)
    IN  SelectSeq(h[list].items, in_tomorrow)

\* lines 301-306: the heap, the list shown and its statistics once the rainy
\* entries are marked
show_marked(merged, marked, old_statistics) ==
    [heap |-> marked.heap,
     enriched_ref |-> merged.result.value,
     statistics |-> IF marked.result.exc = "none"
                    THEN calculate_statistics(
                             entry_values(marked.heap, merged.result.value.id))
                    ELSE old_statistics]

\* lines 283-306 given what the merge returned
show_merged(merged, day, old_ref, old_statistics) ==
    IF merged.result.exc # "none"
    THEN [heap |-> merged.heap, enriched_ref |-> old_ref,
          statistics |-> old_statistics]
    ELSE show_marked(merged,
                     mark_risky(merged.heap,
                                entries_for_tomorrow(
                                    merged.heap, merged.result.value.id, day),
                                1),
                     old_statistics)

\* the three variables a handler leaves behind
Shown(window) ==
    /\ heap' = window.heap
    /\ enriched_ref' = window.enriched_ref
    /\ statistics' = window.statistics

\* MainWindow.on_weather_data_received(weather_data), lines 267-317, with
\* the forecast object the window already holds
OnWeatherDataReceived ==
    /\ Len(heap) <= MaxObjects
    /\ pc' = "on_weather_data_received"
    /\ heap_before' = heap
    /\ IF schedule_ref = None
       THEN UNCHANGED <<heap, enriched_ref, statistics>>
       ELSE Shown(show_merged(
                      merge_schedule_with_weather_objects(
                          heap, schedule_ref.id, weather_ref.id, today),
                      today, enriched_ref, statistics))
    /\ UNCHANGED <<today, day_name, entry_date, time_range, weather_data,
                   closest_weather, weather_info, rain, raw_data, file_data,
                   load_result, schedule, enriched_entries,
                   schedule_ref, weather_ref, fileVars, serviceVars, windowVars>>

\* lines 241-249 given what the merge returned
update_merged(merged, old_ref, old_statistics) ==
    IF merged.result.exc # "none"
    THEN [heap |-> merged.heap, enriched_ref |-> old_ref,
          statistics |-> old_statistics]
    ELSE [heap |-> merged.heap, enriched_ref |-> merged.result.value,
          statistics |-> calculate_statistics(
                             entry_values(merged.heap, merged.result.value.id))]

\* MainWindow.update_schedule_with_cached_weather, lines 231-253
UpdateScheduleWithCachedWeather ==
    /\ Len(heap) <= MaxObjects
    /\ pc' = "update_schedule_with_cached_weather"
    /\ heap_before' = heap
    /\ IF schedule_ref = None \/ weather_ref = None
          \/ Falsy(heap[weather_ref.id])
       THEN UNCHANGED <<heap, enriched_ref, statistics>>
       ELSE Shown(update_merged(
                      merge_schedule_with_weather_objects(
                          heap, schedule_ref.id, weather_ref.id, today),
                      enriched_ref, statistics))
    /\ UNCHANGED <<today, day_name, entry_date, time_range, weather_data,
                   closest_weather, weather_info, rain, raw_data, file_data,
                   load_result, schedule, enriched_entries,
                   schedule_ref, weather_ref, fileVars, serviceVars, windowVars>>

NextObjects == OnWeatherDataReceived \/ UpdateScheduleWithCachedWeather

SpecObjects == InitObjects /\ [][NextObjects]_vars

-----------------------------------------------------------------------------
(* C11 *)

\* the objects a handler passes to the merge: the schedule list, its
\* entries, the forecast dict, its hourly list and the samples
InputObjects(h) ==
    {schedule_ref.id, weather_ref.id, h[weather_ref.id].hourly.id}
    \cup {h[schedule_ref.id].items[i] : i \in 1..Len(h[schedule_ref.id].items)}
    \cup {h[h[weather_ref.id].hourly.id].items[i] :
              i \in 1..Len(h[h[weather_ref.id].hourly.id].items)}

\* C11: after any call of merge_schedule_with_weather and
\* calculate_statistics (made by on_weather_data_received or by
\* update_schedule_with_cached_weather) the caller's schedule list, each
\* schedule entry and the forecast data set with its samples are the objects
\* they were before the call, with the same content: no schedule entry has
\* gained a "weather", "date" or "weather_data" key.
C11_InputsUnchanged ==
    pc \in {"on_weather_data_received", "update_schedule_with_cached_weather"} =>
        /\ \A id \in InputObjects(heap_before) : heap[id] = heap_before[id]
        /\ \A i \in 1..Len(heap[schedule_ref.id].items) :
               DOMAIN heap[heap[schedule_ref.id].items[i]]
                   \cap {"weather", "date", "weather_data"} = {}

\* a merge of two entries that wrote "weather", "date" and, for a rainy
\* entry of tomorrow, "weather_data" into the copies it made
C11_Witness ==
    /\ pc = "on_weather_data_received"
    /\ Len(heap[schedule_ref.id].items) = 2
    /\ Len(heap) = Len(heap_before) + 3
    /\ \E id \in (Len(heap_before) + 1)..Len(heap) :
           /\ "weather_data" \in DOMAIN heap[id]
           /\ heap[id].weather = heap[id].weather_data
           /\ heap[id].weather.type = "ref"
           /\ heap[id].weather.id \in InputObjects(heap_before)

-----------------------------------------------------------------------------
(* Schedule files loaded, exported and loaded again *)

Luni == <<"L","u","n","i">>

Joi == <<"J","o","i">>

EightToTen == <<"0","8",":","0","0","-","1","0",":","0","0">>

TenToTwelve == <<"1","0",":","0","0","-","1","2",":","0","0">>

\* records of a .json file, as json.load returns them
RecLuni ==
    [day |-> Luni, time |-> EightToTen, subject |-> <<"P","I","U">>,
     location |-> <<"C","3","0","9">>]

\* padded, with one-digit hours and no location
RecMarti ==
    [day |-> <<" ","m","a","r","t,","i","\t">>,
     time |-> <<" ","8",":","3","0"," ","-"," ","9",":","0","0"," ">>,
     subject |-> <<"S","O">>]

RecNoSubject ==
    [day |-> Luni, time |-> EightToTen, subject |-> <<>>, location |-> <<>>]

RecNoDay == [time |-> EightToTen, subject |-> <<"B","D">>]

RecNoDash == [day |-> Joi, time |-> <<"0","8","0","0">>, subject |-> <<"B","D">>]

RecTwoDashes ==
    [day |-> Joi,
     time |-> <<"0","8",":","0","0","-","0","9",":","0","0","-","1","0",":","0","0">>,
     subject |-> <<"B","D">>]

RecBadMinute ==
    [day |-> Joi, time |-> <<"0","8",":","6","0","-","0","9",":","0","0">>,
     subject |-> <<"B","D">>]

\* a subject of two spaces
RecBlankSubject ==
    [day |-> Luni, time |-> EightToTen, subject |-> <<" "," ">>,
     location |-> <<"C","3","0","9">>]

\* a subject holding a comma and a quote, a location holding a line feed
RecQuoted ==
    [day |-> Joi, time |-> <<"9",":","5","-","1","0",":","0","0">>,
     subject |-> <<"a",",","\"","b">>, location |-> <<"C","\n","D">>]

\* a location holding a carriage return
RecCarriage ==
    [day |-> Joi, time |-> TenToTwelve, subject |-> <<"B","D">>,
     location |-> <<"C","\r","D">>]

\* a hand-written line of a .csv file: the fields as typed, then "\n"
RECURSIVE Line(_)
Line(fields) ==
    IF Len(fields) = 1 THEN Head(fields) \o <<"\n">>
    ELSE Head(fields) \o <<",">> \o Line(Tail(fields))

Header ==
    Line(<<fieldnames.day, fieldnames.time, fieldnames.subject,
           fieldnames.location>>)

CsvTexts ==
    { \* two valid rows, the second padded and without location
      Header \o Line(<<Luni, EightToTen, <<"P","I","U">>, <<"C","3","0","9">> >>)
             \o Line(<< <<" ","m","a","r","t,","i"," ">>,
                        <<"8",":","3","0"," ","-"," ","9",":","0","0">>,
                        <<"S","O">>, <<>> >>),
      \* no location column
      Line(<<fieldnames.day, fieldnames.time, fieldnames.subject>>)
          \o Line(<<Joi, TenToTwelve, <<"B","D">> >>),
      \* a row shorter than the header
      Header \o Line(<<Joi, TenToTwelve, <<"B","D">> >>),
      \* a valid row, then one with an empty subject
      Header \o Line(<<Luni, EightToTen, <<"P","I","U">>, <<"C","3","0","9">> >>)
             \o Line(<<Joi, TenToTwelve, <<>>, <<>> >>),
      \* a subject of two spaces
      Header \o Line(<<Luni, EightToTen, <<" "," ">>, <<>> >>),
      \* a time without "-"
      Header \o Line(<<Joi, <<"1","0","0","0">>, <<"B","D">>, <<>> >>),
      \* an empty file
      <<>>,
      \* "\r\n" line ends, quoted fields, a doubled quote and a blank line
      <<"d","a","y",",","t","i","m","e",",","s","u","b","j","e","c","t",",",
        "l","o","c","a","t","i","o","n","\r","\n",
        "\"","J","o","i","\"",",","1","0",":","0","0","-","1","2",":","0","0",",",
        "\"","a",",","\"","\"","b","\"",",","\""," ","x"," ","\"","\r","\n",
        "\r","\n">> }

JsonDocuments ==
    { NotJson, [version |-> Num(1)],
      \* a string holding an unescaped tab
      [schedule |-> <<[day |-> JsonString(<<"L","u","n","i","\t">>),
                       time |-> JsonString(EightToTen),
                       subject |-> JsonString(<<"P","I","U">>)]>>] }
    \cup { json_dump(q) :
               q \in { <<>>, <<RecLuni, RecMarti>>,
                       <<RecLuni, RecNoSubject>>, <<RecNoDay>>, <<RecNoDash>>,
                       <<RecTwoDashes>>, <<RecBadMinute>>, <<RecBlankSubject>>,
                       <<RecQuoted>>, <<RecCarriage>> } }

LoadFiles ==
    {File("json", d) : d \in JsonDocuments}
    \cup {File("csv", t) : t \in CsvTexts}

InitLoad ==
    /\ pc = "init"
    /\ today = FirstDay
    /\ day_name = <<>>
    /\ entry_date = None
    /\ time_range = <<>>
    /\ weather_data = None
    /\ closest_weather = NotCalled
    /\ weather_info = None
    /\ rain = NotCalled
    /\ raw_data = None
    /\ file_data = NoFile
    /\ load_result = NotCalled
    /\ schedule = <<>>
    /\ enriched_entries = NotCalled
    /\ statistics = NotCalled
    /\ IdleHeap /\ IdleFiles /\ IdleService /\ IdleWindow

\* DataProcessor.format_weather_for_table raises: `precip_amount > 0`
\* (line 272) does, for a precipitation that is no number
format_weather_for_table_raises(weather) ==
    Gt(Get(weather, "precipitation", Num(0)), 0).exc # "none"

\* MainWindow.update_table_with_weather_data raises: for an entry with
\* weather, format_weather_for_table or detect_rain_conditions does
\* (lines 345, 352)
update_table_with_weather_data_raises(entries) ==
    \E i \in 1..Len(entries) :
        /\ ~Falsy(entries[i].weather)
        /\ \/ format_weather_for_table_raises(entries[i].weather)
           \/ detect_rain_conditions(entries[i].weather).exc # "none"

\* WeatherChartWidget.update_charts, lines 131-147: the samples whose
\* "datetime" fromisoformat parses (ValueError and KeyError are caught)
chart_samples(hourly) ==
    LET parses(sample) ==
            /\ "datetime" \in DOMAIN sample
            /\ fromisoformat(sample.datetime).exc = "none"
    IN  SelectSeq(hourly, parses)

\* lines 131-147 raise: fromisoformat of a "datetime" that is no str, or
\* `dt - reference_time` of an aware and a naive datetime, TypeError
chart_loop_raises(hourly, samples) ==
    \/ \E i \in 1..Len(hourly) :
           /\ "datetime" \in DOMAIN hourly[i]
           /\ fromisoformat(hourly[i].datetime).exc = "TypeError"
    \/ \E i \in 1..Len(samples) :
           fromisoformat(samples[i].datetime).value.aware
               # fromisoformat(samples[1].datetime).value.aware

\* _plot_temperature, _plot_precipitation and _update_statistics raise: sum
\* or a comparison meets a value that is no number
chart_values_raise(samples) ==
    \E i \in 1..Len(samples) :
        \E key \in {"temperature", "precipitation_probability",
                    "precipitation"} :
            Get(samples[i], key, Num(0)).type # "num"

\* _mark_schedule_intervals raises for the entry: fromisoformat of a "date"
\* that is None, or the naive start time minus an aware reference_time,
\* TypeError (line 258 catches ValueError and KeyError only)
mark_interval_raises(entry, reference_aware) ==
    IF "date" \notin DOMAIN entry \/ "time" \notin DOMAIN entry THEN FALSE
    ELSE IF ~Contains(entry.time, "-") THEN FALSE
    ELSE IF Len(Split(entry.time, "-")) # 2 THEN FALSE
    ELSE IF fromisoformat(entry.date).exc # "none"
    THEN fromisoformat(entry.date).exc = "TypeError"
    ELSE /\ strptime_HM(Strip(Split(entry.time, "-")[1])).exc = "none"
         /\ strptime_HM(Strip(Split(entry.time, "-")[2])).exc = "none"
         /\ reference_aware

\* update_charts, lines 118-155, raises, `samples` being the parsed ones
charts_raise(hourly, samples, schedule_entries) ==
    IF chart_loop_raises(hourly, samples) THEN TRUE
    ELSE IF chart_values_raise(samples) THEN TRUE
    ELSE IF schedule_entries = <<>> \/ samples = <<>> THEN FALSE
    ELSE \E i \in 1..Len(schedule_entries) :
             mark_interval_raises(
                 schedule_entries[i],
                 fromisoformat(samples[1].datetime).value.aware)

\* WeatherChartWidget.update_charts(weather_data, schedule_entries) raises
update_charts_raises(data, schedule_entries) ==
    IF Falsy(data) \/ "hourly" \notin DOMAIN data THEN FALSE
    ELSE IF data.hourly = <<>> THEN FALSE
    ELSE charts_raise(data.hourly, chart_samples(data.hourly),
                      schedule_entries)

\* load_schedule without its lines 203-204: what the window shows is left
\* as it was
not_merged(merged, old_entries, old_statistics) ==
    /\ enriched_entries' = old_entries
    /\ statistics' = old_statistics

\* update_schedule_with_cached_weather (lines 237-245), called by
\* load_schedule at line 204 inside its try: the merge with the forecast the
\* window holds, then the table, the charts and the statistics;
\* load_schedule's
\* `except Exception` ends it where one of them raises
Merged(merged, old_entries, old_statistics) ==
    /\ enriched_entries' = IF merged.exc = "none" THEN merged ELSE old_entries
    /\ statistics' = IF merged.exc # "none" THEN old_statistics
                     ELSE IF update_table_with_weather_data_raises(merged.value)
                     THEN old_statistics
                     ELSE IF update_charts_raises(weather_data, merged.value)
                     THEN old_statistics
                     ELSE IF calculate_statistics(merged.value).exc # "none"
                     THEN old_statistics
                     ELSE calculate_statistics(merged.value)

\* load_schedule, lines 182-207, given what the loader returned
Loaded(loaded) ==
    /\ load_result' = loaded.result
    /\ schedule' = loaded.schedule
    /\ schedule_data' = IF loaded.result.status = "success"
                        THEN [schedule |-> loaded.result.schedule]
                        ELSE schedule_data
    \* self.refresh_weather_button.setEnabled(True)
    /\ refresh_weather_button' = IF loaded.result.status = "success"
                                 THEN TRUE
                                 ELSE refresh_weather_button
    \* if self.weather_data: self.update_schedule_with_cached_weather()
    /\ IF loaded.result.status = "success" /\ ~Falsy(weather_data)
       THEN Merged(merge_schedule_with_weather(loaded.schedule, weather_data,
                                               today),
                   enriched_entries, statistics)
       ELSE UNCHANGED <<enriched_entries, statistics>>

\* MainWindow.load_schedule, lines 166-207, with the file the dialog returned
LoadSchedule(file) ==
    /\ pc' = "load_schedule"
    /\ file_data' = file
    /\ Loaded(IF file.ext = "json"
              THEN load_from_json(file.content, schedule)
              ELSE load_from_csv(file.content, schedule))
    /\ UNCHANGED <<today, day_name, entry_date, time_range, weather_data,
                   closest_weather, weather_info, rain, raw_data,
                   disk, exported, export_result, heapVars, serviceVars,
                   notifications_enabled, check_interval, check_timer,
                   notification_history, notifications, filtered>>

\* a file picked in the dialog: one of the files at hand or the exported one
LoadScheduleFile ==
    \E file \in LoadFiles \cup {disk} : file # NoFile /\ LoadSchedule(file)

\* the file an export wrote and the bool it returned
Exported(ext, written) ==
    /\ disk' = File(ext, written.file)
    /\ export_result' = written.result

\* ScheduleManager.export_to_json(file_path) with a path ending in .json
ExportToJson ==
    /\ pc' = "export_to_json"
    /\ Exported("json", export_to_json(schedule))
    /\ exported' = schedule
    /\ UNCHANGED <<today, day_name, entry_date, time_range, weather_data,
                   closest_weather, weather_info, rain, raw_data, file_data,
                   load_result, schedule, enriched_entries, statistics,
                   schedule_data, heapVars, serviceVars, windowVars>>

\* ScheduleManager.export_to_csv(file_path) with a path ending in .csv
ExportToCsv ==
    /\ pc' = "export_to_csv"
    /\ Exported("csv", export_to_csv(schedule))
    /\ exported' = schedule
    /\ UNCHANGED <<today, day_name, entry_date, time_range, weather_data,
                   closest_weather, weather_info, rain, raw_data, file_data,
                   load_result, schedule, enriched_entries, statistics,
                   schedule_data, heapVars, serviceVars, windowVars>>

NextLoad == LoadScheduleFile \/ ExportToJson \/ ExportToCsv

SpecLoad == InitLoad /\ [][NextLoad]_vars

-----------------------------------------------------------------------------
(* What a schedule file says, read independently of the loader's checks *)

Keys == {"day", "time", "subject", "location"}

\* s without its leading and trailing whitespace
Trim(s) ==
    LET inked == {i \in 1..Len(s) : s[i] \notin Whitespace}
    IN  IF inked = {} THEN <<>>
        ELSE SubSeq(s, CHOOSE i \in inked : \A j \in inked : i <= j,
                       CHOOSE i \in inked : \A j \in inked : j <= i)

\* the record a row of a .csv file stands for under the given header: the
\* columns the header names and the row reaches
CsvRecord(header, row) ==
    LET column(k) == CHOOSE i \in 1..Len(header) :
                         /\ header[i] = fieldnames[k]
                         /\ \A j \in (i + 1)..Len(header) :
                                header[j] # fieldnames[k]
        present == {k \in Keys : in_row(header, k) /\ column(k) <= Len(row)}
    IN  [k \in present |-> row[column(k)]]

\* the file can be read as a list of records
Readable(file) ==
    \/ file.ext = "csv"
    \/ /\ json_load(file.content).exc = "none"
       /\ "schedule" \in DOMAIN json_load(file.content).value

\* the records of a readable file, in file order
SourceRecords(file) ==
    IF file.ext = "json" THEN json_load(file.content).value.schedule
    ELSE LET rows == csv_reader(universal_newlines(file.content))
             nonblank(row) == row # <<>>
             records == IF rows = <<>> THEN <<>>
                        ELSE SelectSeq(Tail(rows), nonblank)
         IN  [i \in 1..Len(records) |-> CsvRecord(rows[1], records[i])]

AbsentOrEmpty(record, k) == k \notin DOMAIN record \/ record[k] = <<>>

Digit == {"0","1","2","3","4","5","6","7","8","9"}

\* the number a token of one or two digits denotes, -1 for any other token
Number(token) ==
    IF Len(token) \in {1, 2} /\ \A i \in 1..Len(token) : token[i] \in Digit
    THEN IF Len(token) = 1 THEN DigitVal[token[1]]
         ELSE 10 * DigitVal[token[1]] + DigitVal[token[2]]
    ELSE -1

\* token is an hour 0..23, a colon and a minute 0..59
IsHourMinute(token) ==
    \E c \in 1..Len(token) :
        /\ token[c] = ":"
        /\ Number(SubSeq(token, 1, c - 1)) \in 0..23
        /\ Number(SubSeq(token, c + 1, Len(token))) \in 0..59

\* exactly one "-", with an HH:MM token on either side of it
WellFormedTime(t) ==
    /\ Cardinality({i \in 1..Len(t) : t[i] = "-"}) = 1
    /\ LET dash == CHOOSE i \in 1..Len(t) : t[i] = "-"
       IN  /\ IsHourMinute(Trim(SubSeq(t, 1, dash - 1)))
           /\ IsHourMinute(Trim(SubSeq(t, dash + 1, Len(t))))

\* the load returned an error: a message and no schedule
ReturnedError ==
    /\ load_result.status = "error"
    /\ DOMAIN load_result = {"status", "message"}

-----------------------------------------------------------------------------
(* C12 *)

\* C12: a load (from JSON or CSV) of a file in which some record's day, time
\* or subject is absent or empty returns status "error", with a message and
\* without a schedule.
C12_MissingFieldIsError ==
    (pc = "load_schedule" /\ Readable(file_data)) =>
        ((\E i \in 1..Len(SourceRecords(file_data)) :
              \E k \in {"day", "time", "subject"} :
                  AbsentOrEmpty(SourceRecords(file_data)[i], k))
             => ReturnedError)

\* a .csv file whose second row has an empty subject was refused
C12_Witness ==
    /\ pc = "load_schedule"
    /\ file_data.ext = "csv"
    /\ Len(SourceRecords(file_data)) = 2
    /\ ~AbsentOrEmpty(SourceRecords(file_data)[1], "subject")
    /\ SourceRecords(file_data)[2].subject = <<>>
    /\ ReturnedError

-----------------------------------------------------------------------------
(* C13 *)

\* the record has a day, a time and a subject that are not blank and, in a
\* .csv file, reaches every column of the header
NothingMissing(file, i) ==
    LET record == SourceRecords(file)[i]
    IN  /\ \A k \in {"day", "time", "subject"} :
               k \in DOMAIN record /\ Trim(record[k]) # <<>>
        /\ file.ext = "csv" =>
               LET rows == csv_reader(universal_newlines(file.content))
               IN  in_row(rows[1], "location") => "location" \in DOMAIN record

\* C13: a load fails with status "error" whenever some record's time is not
\* exactly one "-" between two tokens that parse as HH:MM (the tokens taken
\* without surrounding whitespace, hours and minutes of one or two digits);
\* and when every record's time has that form and nothing else is missing,
\* the load succeeds.
C13_TimeFormat ==
    (pc = "load_schedule" /\ Readable(file_data)) =>
        LET records == SourceRecords(file_data)
        IN  /\ (\E i \in 1..Len(records) :
                    /\ ~AbsentOrEmpty(records[i], "time")
                    /\ ~WellFormedTime(records[i].time))
                   => ReturnedError
            /\ (\A i \in 1..Len(records) :
                    /\ NothingMissing(file_data, i)
                    /\ WellFormedTime(records[i].time))
                   => load_result.status = "success"

\* a time with two "-" was refused
C13_Witness ==
    /\ pc = "load_schedule"
    /\ Readable(file_data)
    /\ Len(SourceRecords(file_data)) = 1
    /\ ~AbsentOrEmpty(SourceRecords(file_data)[1], "time")
    /\ Cardinality({i \in 1..Len(SourceRecords(file_data)[1].time) :
                        SourceRecords(file_data)[1].time[i] = "-"}) = 2
    /\ ReturnedError

-----------------------------------------------------------------------------
(* C14 *)

\* the file cannot be read, or one of its records is invalid
Unloadable(file) ==
    \/ ~Readable(file)
    \/ \E i \in 1..Len(SourceRecords(file)) :
           \/ \E k \in {"day", "time", "subject"} :
                  AbsentOrEmpty(SourceRecords(file)[i], k)
           \/ ~WellFormedTime(SourceRecords(file)[i].time)

\* C14: a load of a file that cannot be read or that holds an invalid
\* record, and every load that returns an error, returns a single message and
\* leaves ScheduleManager.schedule and MainWindow.schedule_data as they were
\* before the load: no prefix of the file's records is stored.
C14_LoadAllOrNothing ==
    [][(pc' = "load_schedule"
            /\ (load_result'.status = "error" \/ Unloadable(file_data')))
           => /\ load_result'.status = "error"
              /\ DOMAIN load_result' = {"status", "message"}
              /\ schedule' = schedule
              /\ schedule_data' = schedule_data]_vars

\* with a schedule of two entries loaded, a file whose first record is valid
\* and whose second is not was refused and the two entries are still there
C14_Witness ==
    /\ pc = "load_schedule"
    /\ file_data.ext = "json"
    /\ Readable(file_data)
    /\ Len(SourceRecords(file_data)) = 2
    /\ _validate_entry(SourceRecords(file_data)[1]).exc = "none"
    /\ _validate_entry(SourceRecords(file_data)[2]).exc # "none"
    /\ load_result.status = "error"
    /\ Len(schedule) = 2
    /\ schedule[2].subject = <<"S","O">>
    /\ schedule_data = [schedule |-> schedule]

-----------------------------------------------------------------------------
(* C15 *)

\* C15: after a successful load from JSON or CSV the stored entries are, in
\* file order, the file's records with day, time, subject and location
\* trimmed of leading and trailing whitespace, location being "" when the
\* record has none.
C15_StoredEntriesTrimmed ==
    (pc = "load_schedule" /\ load_result.status = "success") =>
        LET records == SourceRecords(file_data)
        IN  /\ load_result.schedule = schedule
            /\ Len(schedule) = Len(records)
            /\ \A i \in 1..Len(records) :
                   /\ DOMAIN schedule[i] = Keys
                   /\ \A k \in Keys :
                          schedule[i][k] = Trim(Get(records[i], k, <<>>))

\* a padded record without location, loaded from a .json file
C15_Witness ==
    /\ pc = "load_schedule"
    /\ load_result.status = "success"
    /\ file_data.ext = "json"
    /\ Len(schedule) = 2
    /\ "location" \notin DOMAIN SourceRecords(file_data)[2]
    /\ SourceRecords(file_data)[2].day = <<" ","m","a","r","t,","i","\t">>
    /\ schedule[2].day = <<"m","a","r","t,","i">>
    /\ schedule[2].time = <<"8",":","3","0"," ","-"," ","9",":","0","0">>
    /\ schedule[2].location = <<>>

-----------------------------------------------------------------------------
(* C16 *)

\* a letter without its diacritic
Unaccented ==
    ("t," :> "t") @@ ("T," :> "T") @@ ("s," :> "s") @@ ("S," :> "S")
    @@ ("a^" :> "a") @@ ("A^" :> "A") @@ ("a(" :> "a") @@ ("A(" :> "A")
    @@ ("i^" :> "i") @@ ("I^" :> "I")

Unaccent(s) ==
    [i \in 1..Len(s) |-> IF s[i] \in DOMAIN Unaccented THEN Unaccented[s[i]]
                         ELSE s[i]]

\* the canonical spellings: the seven names, capitalised
Capitalised ==
    ("l" :> "L") @@ ("m" :> "M") @@ ("j" :> "J") @@ ("v" :> "V")
    @@ ("s" :> "S") @@ ("d" :> "D")

Canonical(target_index) ==
    LET name == RomanianWeekdays[target_index + 1]
    IN  <<Capitalised[name[1]]>> \o Tail(name)

\* C16: a day name that differs from a canonical weekday name only in letter
\* case, or only in diacritics, resolves to the date the canonical spelling
\* resolves to.
C16_DiacriticsNormalized ==
    pc = "calculate_entry_date" =>
        \A target_index \in 0..6 :
            (\/ Lower(day_name) = Lower(Canonical(target_index))
             \/ Unaccent(day_name) = Unaccent(Canonical(target_index)))
                => /\ entry_date # None
                   /\ entry_date
                          = _calculate_entry_date(Canonical(target_index), today)

-----------------------------------------------------------------------------
(* C17 *)

\* some file loads successfully into the given schedule
HeldAfterLoad(entries) ==
    \E file \in LoadFiles :
        LET loaded == IF file.ext = "json"
                      THEN load_from_json(file.content, <<>>)
                      ELSE load_from_csv(file.content, <<>>)
        IN  loaded.result.status = "success" /\ loaded.schedule = entries

\* C17: a load of the file last exported (export_to_json then load_from_json,
\* export_to_csv then load_from_csv), the exported schedule being one a
\* successful load left in ScheduleManager, succeeds and stores a schedule
\* equal to the exported one.
C17_RoundTrip ==
    (/\ pc = "load_schedule"
     /\ file_data.ext = disk.ext
     /\ file_data = disk
     /\ HeldAfterLoad(exported))
        => /\ load_result.status = "success"
           /\ schedule = exported

-----------------------------------------------------------------------------
(* WeatherService: the cache, the requests and their replies *)

\* self.cache_duration, in seconds
cache_duration == 1800

\* `elapsed <= self.cache_duration`
not_older(elapsed, duration) == elapsed <= duration

\* `elapsed < self.cache_duration`
younger(elapsed, duration) == elapsed < duration

\* WeatherService.is_cache_valid at the given time
is_cache_valid(cached, timestamp, clock) ==
    IF Falsy(cached) \/ Falsy(timestamp) THEN FALSE
    ELSE younger(clock - timestamp.v, cache_duration)

Celsius == <<"c","e","l","s","i","u","s">>

Fahrenheit == <<"f","a","h","r","e","n","h","e","i","t">>

\* every unit taken
any_unit(unit) == TRUE

\* `unit.lower() in ["celsius", "fahrenheit"]`
known_unit(unit) == Lower(unit) \in {Celsius, Fahrenheit}

\* the signals and what they carry
weather_data_ready(data) == [signal |-> "weather_data_ready", data |-> data]

weather_error(message) == [signal |-> "weather_error", message |-> message]

GeocodingHost == "geocoding-api.open-meteo.com"

ForecastHost == "api.open-meteo.com/v1/forecast"

Min(a, b) == IF a < b THEN a ELSE b

\* the request fetch_weather_data builds
GeocodingRequest(city) == [url |-> GeocodingHost, name |-> city]

\* the request _fetch_weather_for_coords builds: temperature_unit is a
\* parameter for fahrenheit only
ForecastRequest(lat, lon, days, unit) ==
    IF unit = Fahrenheit
    THEN [url |-> ForecastHost, latitude |-> lat, longitude |-> lon,
          forecast_days |-> Min(days, 16), temperature_unit |-> Fahrenheit]
    ELSE [url |-> ForecastHost, latitude |-> lat, longitude |-> lon,
          forecast_days |-> Min(days, 16)]

\* a reply body that is not UTF-8 text
NotUtf8 == [type |-> "not utf-8"]

\* json.loads(bytes(data))
json_loads(data) ==
    IF data = NotUtf8 THEN Raise("UnicodeDecodeError")
    ELSE IF data = NotJson THEN Raise("JSONDecodeError")
    ELSE Return(data)

\* a finished QNetworkReply
Reply(request, error, data) ==
    [request |-> request, error |-> error, data |-> data]

\* resources/weather_cache.json as save_weather_to_file writes it
CacheFile(timestamp, data) == [timestamp |-> Num(timestamp), data |-> data]

\* WeatherService.load_weather_from_file at the given time: the cache it
\* leaves in the service
load_weather_from_file(file, clock) ==
    IF file # None /\ younger(clock - file.timestamp.v, cache_duration)
    THEN [cached_weather |-> file.data, cache_timestamp |-> file.timestamp]
    ELSE [cached_weather |-> None, cache_timestamp |-> None]

\* s without its i-th element
Remove(s, i) == SubSeq(s, 1, i - 1) \o SubSeq(s, i + 1, Len(s))

-----------------------------------------------------------------------------
(* The service with its callers, the network and the clock *)

\* requests and timer callbacks outstanding at once
MaxInFlight == 1

\* the latest time the clock reaches
MaxNow == 1800

\* how far the clock moves between two operations
Ticks == {900}

\* how old resources/weather_cache.json is when the application starts
FileAges == {899, 1800}

Cities == {"Bucuresti", "Cluj-Napoca"}

Units ==
    {Celsius, Fahrenheit, <<"F","a","h","r","e","n","h","e","i","t">>,
     <<"k","e","l","v","i","n">>}

DaysRequested == {7}

\* what the geocoding service knows of a city
Place(city) ==
    IF city = "Bucuresti"
    THEN [name |-> city, latitude |-> "44.43225", longitude |-> "26.10626"]
    ELSE [name |-> city, latitude |-> "46.76667", longitude |-> "23.6"]

\* the bodies a geocoding reply without network error may have
GeocodingBodies(request) ==
    {NotUtf8, NotJson, EmptyDict, [results |-> <<>>],
     [results |-> <<EmptyDict>>], [results |-> <<Place(request.name)>>]}

\* the forecast the server computes for a request, one hourly sample: 5.0
\* degrees Celsius, 41.0 degrees Fahrenheit
ServerForecast(request) ==
    [latitude |-> request.latitude, longitude |-> request.longitude,
     hourly |-> [time |-> <<IsoNaive(FirstDay, 8, 0, 0)>>,
                 temperature_2m |->
                     <<Num(IF "temperature_unit" \in DOMAIN request
                           THEN 410 ELSE 50)>>,
                 precipitation_probability |-> <<Num(0)>>,
                 precipitation |-> <<Num(0)>>,
                 weathercode |-> <<Num(0)>>,
                 windspeed_10m |-> <<Num(120)>>]]

ForecastBodies(request) == {NotUtf8, NotJson, ServerForecast(request)}

\* the replies a request may get
Replies(request) ==
    {Reply(request, TRUE, NotJson)}
    \cup {Reply(request, FALSE, data) :
              data \in IF request.url = GeocodingHost
                       THEN GeocodingBodies(request)
                       ELSE ForecastBodies(request)}

\* the cache files a start may find, none included
WeatherCacheFiles ==
    {None}
    \cup {CacheFile(0 - age,
                    process_weather_data(ServerForecast(
                        ForecastRequest("44.4268", "26.1025", 7, Celsius)))) :
              age \in FileAges}

dataVars ==
    <<today, day_name, entry_date, time_range, weather_data, closest_weather,
      weather_info, rain, raw_data, file_data, load_result, schedule,
      enriched_entries, statistics>>

\* WeatherService.__init__, then load_weather_from_file (main_window.py:61)
InitService ==
    /\ pc = "init"
    /\ today = FirstDay
    /\ day_name = <<>>
    /\ entry_date = None
    /\ time_range = <<>>
    /\ weather_data = None
    /\ closest_weather = NotCalled
    /\ weather_info = None
    /\ rain = NotCalled
    /\ raw_data = None
    /\ file_data = NoFile
    /\ load_result = NotCalled
    /\ schedule = <<>>
    /\ enriched_entries = NotCalled
    /\ statistics = NotCalled
    /\ IdleHeap /\ IdleFiles /\ IdleWindow
    /\ now = 0
    /\ city_name = "Bucuresti"
    /\ latitude = "44.4268"
    /\ longitude = "26.1025"
    /\ temperature_unit = Celsius
    /\ weather_cache_file \in WeatherCacheFiles
    /\ cached_weather = load_weather_from_file(weather_cache_file, now).cached_weather
    /\ cache_timestamp = load_weather_from_file(weather_cache_file, now).cache_timestamp
    /\ pending_days_request = 0
    /\ network = <<>>
    /\ timers = <<>>
    /\ signals = <<>>
    /\ args = NotCalled

\* MainWindow.on_weather_data_received raises: the merge of the loaded
\* schedule with the forecast received, the update of the table or of the
\* charts, or the statistics of the merge do (lines 278, 284, 287, 306);
\* without a schedule the slot returns at line 274
received_raises(data, merged) ==
    IF merged.exc # "none" THEN TRUE
    ELSE IF update_table_with_weather_data_raises(merged.value) THEN TRUE
    ELSE IF update_charts_raises(data, merged.value) THEN TRUE
    ELSE calculate_statistics(merged.value).exc # "none"

on_weather_data_received_raises(data) ==
    IF Falsy(schedule_data) THEN FALSE
    ELSE received_raises(data,
                         merge_schedule_with_weather(schedule_data.schedule,
                                                     data, today))

\* where the operation `name` ends once it has emitted weather_data_ready:
\* the slot runs inside emit, and an exception it raises ends the
\* application
after_emit(name, data) ==
    IF on_weather_data_received_raises(data) THEN "abort" ELSE name

\* an exception no handler caught has not ended the application
Running == pc # "abort"

\* an exception leaves a slot uncaught: PyQt6 ends the application
Abort ==
    /\ pc' = "abort"
    /\ signals' = <<>>
    /\ UNCHANGED <<latitude, longitude, cached_weather, cache_timestamp,
                   timers, weather_cache_file>>

\* WeatherService.set_location
SetLocation ==
    \E city \in Cities :
        /\ Running
        /\ pc' = "set_location"
        /\ args' = NotCalled
        /\ city_name' = city
        /\ cached_weather' = None
        /\ signals' = <<>>
        /\ UNCHANGED <<now, latitude, longitude, temperature_unit,
                       cache_timestamp, pending_days_request, network, timers,
                       weather_cache_file, dataVars, heapVars, fileVars, windowVars>>

\* WeatherService.set_temperature_unit
SetTemperatureUnit ==
    \E unit \in Units :
        /\ Running
        /\ pc' = "set_temperature_unit"
        /\ args' = [unit |-> unit]
        /\ IF known_unit(unit)
           THEN /\ temperature_unit' = Lower(unit)
                /\ cached_weather' = None
           ELSE UNCHANGED <<temperature_unit, cached_weather>>
        /\ signals' = <<>>
        /\ UNCHANGED <<now, city_name, latitude, longitude, cache_timestamp,
                       pending_days_request, network, timers,
                       weather_cache_file, dataVars, heapVars, fileVars, windowVars>>

\* WeatherService.fetch_weather_data(days): what it does to the service
fetch_weather_data(days) ==
    /\ pending_days_request' = days
    /\ network' = Append(network, GeocodingRequest(city_name))
    /\ signals' = <<>>
    /\ UNCHANGED <<now, city_name, latitude, longitude, temperature_unit,
                   cached_weather, cache_timestamp, timers,
                   weather_cache_file>>

\* WeatherService.fetch_weather_data, called on the service alone
FetchWeatherData ==
    \E days \in DaysRequested :
        /\ Running
        /\ Len(network) + Len(timers) < MaxInFlight
        /\ pc' = "fetch_weather_data"
        /\ args' = NotCalled
        /\ fetch_weather_data(days)
        /\ UNCHANGED <<dataVars, heapVars, fileVars, windowVars>>

\* WeatherService._fetch_weather_for_coords, called by the timer with
\* self.latitude, self.longitude and self.pending_days_request
_fetch_weather_for_coords ==
    /\ Running
    /\ timers # <<>>
    /\ args' = NotCalled
    /\ timers' = Tail(timers)
    /\ IF is_cache_valid(cached_weather, cache_timestamp, now)
       THEN /\ pc' = after_emit("_fetch_weather_for_coords", cached_weather)
            /\ signals' = <<weather_data_ready(cached_weather)>>
            /\ UNCHANGED network
       ELSE /\ pc' = "_fetch_weather_for_coords"
            /\ signals' = <<>>
            /\ network' = Append(network,
                                 ForecastRequest(latitude, longitude,
                                                 pending_days_request,
                                                 temperature_unit))
    /\ UNCHANGED <<now, city_name, latitude, longitude, temperature_unit,
                   cached_weather, cache_timestamp, pending_days_request,
                   weather_cache_file>>

\* the timer's call, on the service alone
FetchWeatherForCoords ==
    /\ _fetch_weather_for_coords
    /\ UNCHANGED <<dataVars, heapVars, fileVars, windowVars>>

\* handle_response, the geocoding branch (lines 116-143)
HandleGeocoding(reply) ==
    LET geo_json == json_loads(reply.data)
        emit(message) ==
            /\ pc' = "handle_response"
            /\ signals' = <<weather_error(message)>>
            /\ UNCHANGED <<latitude, longitude, cached_weather,
                           cache_timestamp, timers, weather_cache_file>>
    IN  IF reply.error THEN emit("Eroare la geocoding")
        ELSE IF geo_json.exc = "JSONDecodeError"
        THEN emit("Eroare la parsarea geocoding")
        ELSE IF geo_json.exc # "none" THEN Abort
        ELSE IF Get(geo_json.value, "results", <<>>) = <<>>   \* None or []
        THEN emit("Orasul nu a fost gasit")
        ELSE IF "latitude" \notin DOMAIN geo_json.value.results[1]
        THEN Abort                                              \* KeyError
        ELSE /\ pc' = "handle_response"
             /\ latitude' = geo_json.value.results[1].latitude
             /\ longitude' = geo_json.value.results[1].longitude
             /\ timers' = Append(timers, "_fetch_weather_for_coords")
             /\ signals' = <<>>
             /\ UNCHANGED <<cached_weather, cache_timestamp,
                            weather_cache_file>>

\* handle_response, the forecast branch (lines 145-164)
HandleForecast(reply) ==
    LET weather_json == json_loads(reply.data)
        processed_data == process_weather_data(weather_json.value)
        emit(message) ==
            /\ pc' = "handle_response"
            /\ signals' = <<weather_error(message)>>
            /\ UNCHANGED <<cached_weather, cache_timestamp,
                           weather_cache_file>>
    IN  IF reply.error THEN emit("Eroare la solicitarea datelor meteo")
        ELSE IF weather_json.exc = "JSONDecodeError"
        THEN emit("Eroare la parsarea raspunsului JSON")
        ELSE IF weather_json.exc # "none" THEN Abort
        ELSE /\ pc' = after_emit("handle_response", processed_data)
             /\ cached_weather' = processed_data
             /\ cache_timestamp' = Num(now)
             /\ weather_cache_file' = CacheFile(now, processed_data)
             /\ signals' = <<weather_data_ready(processed_data)>>

\* WeatherService.handle_response(reply) for the reply to the i-th
\* outstanding request
handle_response(i, reply) ==
    /\ Running
    /\ args' = reply
    /\ network' = Remove(network, i)
    /\ IF reply.request.url = GeocodingHost
       THEN HandleGeocoding(reply)
       ELSE /\ HandleForecast(reply)
            /\ UNCHANGED <<latitude, longitude, timers>>
    /\ UNCHANGED <<now, city_name, temperature_unit, pending_days_request>>

\* a reply arrives, on the service alone
HandleResponse ==
    \E i \in 1..Len(network) :
        \E reply \in Replies(network[i]) :
            /\ handle_response(i, reply)
            /\ UNCHANGED <<dataVars, heapVars, fileVars, windowVars>>

\* time passes
Tick ==
    \E elapsed \in Ticks :
        /\ Running
        /\ now + elapsed <= MaxNow
        /\ pc' = "clock"
        /\ now' = now + elapsed
        /\ signals' = <<>>
        /\ args' = NotCalled
        /\ UNCHANGED <<city_name, latitude, longitude, temperature_unit,
                       cached_weather, cache_timestamp, pending_days_request,
                       network, timers, weather_cache_file, dataVars,
                       heapVars, fileVars, windowVars>>

NextService ==
    \/ SetLocation
    \/ SetTemperatureUnit
    \/ FetchWeatherData
    \/ FetchWeatherForCoords
    \/ HandleResponse
    \/ Tick

SpecService == InitService /\ [][NextService]_vars

-----------------------------------------------------------------------------
(* What the service is observed to do in one step *)

\* a cached forecast and its timestamp exist and the forecast was stored
\* fewer than 1800 seconds ago
CacheValid ==
    /\ cached_weather # None
    /\ cache_timestamp # None
    /\ now - cache_timestamp.v < 1800

\* the step hands a forecast request to the network
ForecastRequested ==
    /\ Len(network') = Len(network) + 1
    /\ network'[Len(network')].url = ForecastHost

\* the step emits exactly weather_data_ready with the given forecast
Delivered(forecast) == signals' = <<weather_data_ready(forecast)>>

\* the step emits exactly one weather_error
ErrorEmitted ==
    /\ Len(signals') = 1
    /\ signals'[1].signal = "weather_error"

\* the step processes a successful forecast response
ForecastProcessed ==
    /\ pc' = "handle_response"
    /\ args'.request.url = ForecastHost
    /\ ~args'.error
    /\ Delivered(cached_weather')

-----------------------------------------------------------------------------
(* C18 *)

\* C18: is_cache_valid is true exactly when a cached forecast and its
\* timestamp exist and fewer than 1800 seconds have elapsed since it was
\* stored; _fetch_weather_for_coords emits the cached forecast through
\* weather_data_ready, with no forecast request, when the cache is valid, and
\* issues a forecast request, with no emission, when it is not.
C18_CacheDecidesRefetch ==
    /\ [](is_cache_valid(cached_weather, cache_timestamp, now) <=> CacheValid)
    /\ [][pc' = "_fetch_weather_for_coords" =>
              IF CacheValid
              THEN Delivered(cached_weather) /\ network' = network
              ELSE ForecastRequested /\ signals' = <<>>]_vars

\* a forecast stored 1799 seconds ago was delivered from the cache
C18_Witness ==
    /\ pc = "_fetch_weather_for_coords"
    /\ cache_timestamp # None
    /\ now - cache_timestamp.v = 1799
    /\ signals = <<weather_data_ready(cached_weather)>>
    /\ network = <<>>

-----------------------------------------------------------------------------
(* C19 *)

\* what set_location and set_temperature_unit do to the cache, the units
\* that count as "celsius"/"fahrenheit" being those Accepted holds of
InvalidatedByChange(Accepted(_)) ==
    /\ pc' = "set_location" => ~CacheValid'
    /\ pc' = "set_temperature_unit" =>
           IF Accepted(args'.unit)
           THEN ~CacheValid'
           ELSE /\ temperature_unit' = temperature_unit
                /\ cached_weather' = cached_weather
                /\ cache_timestamp' = cache_timestamp
    \* the cache stays invalid until a successful forecast response
    /\ (~CacheValid /\ CacheValid') => ForecastProcessed
    \* a fetch emits from the cache only what a response stored since
    /\ (pc' = "_fetch_weather_for_coords" /\ signals' # <<>>) =>
           CacheValid /\ Delivered(cached_weather)

SpelledExactly(unit) == unit \in {Celsius, Fahrenheit}

SpelledInAnyCase(unit) == Lower(unit) \in {Celsius, Fahrenheit}

\* C19 as stated: after set_location, or set_temperature_unit with
\* "celsius"/"fahrenheit", is_cache_valid is false until the next successful
\* forecast response is processed; set_temperature_unit with any other unit
\* leaves the unit and the cache unchanged.
C19_ChangeInvalidatesCache == [][InvalidatedByChange(SpelledExactly)]_vars

\* C19, amended: "celsius" and "fahrenheit" are recognised in any letter
\* case and stored in lower case. After set_location, or set_temperature_unit
\* with a unit that lowercases to "celsius" or "fahrenheit", is_cache_valid is
\* false until the next successful forecast response is processed;
\* set_temperature_unit with any other unit leaves the unit and the cache
\* unchanged.
C19_ChangeInvalidatesCacheAnyCase ==
    [][/\ InvalidatedByChange(SpelledInAnyCase)
       /\ (pc' = "set_temperature_unit" /\ SpelledInAnyCase(args'.unit))
              => temperature_unit' = Lower(args'.unit)]_vars

\* set_temperature_unit("Fahrenheit") has just emptied a cache that held a
\* forecast in Celsius
C19_Witness ==
    /\ pc = "set_temperature_unit"
    /\ args.unit = <<"F","a","h","r","e","n","h","e","i","t">>
    /\ temperature_unit = Fahrenheit
    /\ cached_weather = None
    /\ cache_timestamp # None
    /\ now - cache_timestamp.v < 1800

-----------------------------------------------------------------------------
(* C20 *)

\* the step handles a geocoding reply that has no network error and holds at
\* least one result
GeocodingSucceeded ==
    /\ pc' \in {"handle_response", "abort"}
    /\ args'.request.url = GeocodingHost
    /\ ~args'.error
    /\ json_loads(args'.data).exc = "none"
    /\ Get(args'.data, "results", <<>>) # <<>>

\* the step handles a geocoding reply with a network error, a body that
\* cannot be parsed, or no result
GeocodingFailed ==
    /\ pc' \in {"handle_response", "abort"}
    /\ args'.request.url = GeocodingHost
    /\ \/ args'.error
       \/ json_loads(args'.data).exc # "none"
       \/ Get(args'.data, "results", <<>>) = <<>>

\* C20: a forecast request, or a cache hit emission, is made only by the
\* call that a successful geocoding reply with at least one result
\* scheduled, and with the coordinates of such a reply: only such a reply
\* schedules the call and only it sets the coordinates, to those of its first
\* result. A geocoding reply with a network error, an unparseable body or no
\* result emits weather_error and neither schedules the call nor issues a
\* forecast request.
C20_GeocodingThenForecast ==
    [][/\ (ForecastRequested \/ (signals' # <<>> /\ pc' # "handle_response"))
              => /\ pc' = "_fetch_weather_for_coords"
                 /\ timers # <<>>
                 /\ ForecastRequested =>
                        /\ network'[Len(network')].latitude = latitude
                        /\ network'[Len(network')].longitude = longitude
       /\ (Len(timers') > Len(timers)
               \/ latitude' # latitude \/ longitude' # longitude)
              => /\ GeocodingSucceeded
                 /\ latitude' = args'.data.results[1].latitude
                 /\ longitude' = args'.data.results[1].longitude
                 /\ Len(timers') > Len(timers)
       /\ GeocodingFailed
              => /\ ErrorEmitted
                 /\ timers' = timers
                 /\ ~ForecastRequested]_vars

-----------------------------------------------------------------------------
(* C28 *)

\* C28: after any sequence of successful and failed loads, from JSON or from
\* CSV, every entry of ScheduleManager.schedule has a non-empty day, a
\* non-empty subject and a time of the form HH:MM-HH:MM.
C28_StoredEntriesWellFormed ==
    \A i \in 1..Len(schedule) :
        /\ schedule[i].day # <<>>
        /\ schedule[i].subject # <<>>
        /\ WellFormedTime(schedule[i].time)

-----------------------------------------------------------------------------
(* C26 *)

\* the element of index i of the array `name` of a section of the raw reply,
\* or `default` when the section has no such array or the array is shorter
TakenOr(section, name, i, default) ==
    IF name \in DOMAIN section /\ i <= Len(section[name])
    THEN section[name][i]
    ELSE default

\* the section of the raw reply, empty when the reply has none
Section(raw, name) == IF name \in DOMAIN raw THEN raw[name] ELSE EmptyDict

\* the "time" array of a section, empty when the section has none
TimesOf(section) ==
    IF "time" \in DOMAIN section THEN section.time ELSE <<>>

\* C26: process_weather_data produces exactly one hourly record per element
\* of the raw hourly "time" array, in the same order, with datetime = time[i]
\* and every other field taken from the parallel array at index i when that
\* array is long enough and otherwise defaulted (temperature None;
\* precipitation_probability, precipitation, weather_code and wind_speed 0);
\* daily records are built the same way from the daily arrays, and a missing
\* hourly or daily section gives an empty list.
C26_OneRecordPerTime ==
    pc \in {"process_weather_data", "detect_rain_conditions"} =>
        LET hourly == Section(raw_data, "hourly")
            daily == Section(raw_data, "daily")
        IN  /\ Len(weather_data.hourly) = Len(TimesOf(hourly))
            /\ \A i \in 1..Len(TimesOf(hourly)) :
                   LET record == weather_data.hourly[i]
                   IN  /\ record.datetime = hourly.time[i]
                       /\ record.temperature =
                              TakenOr(hourly, "temperature_2m", i, None)
                       /\ record.precipitation_probability =
                              TakenOr(hourly, "precipitation_probability", i,
                                      Num(0))
                       /\ record.precipitation =
                              TakenOr(hourly, "precipitation", i, Num(0))
                       /\ record.weather_code =
                              TakenOr(hourly, "weathercode", i, Num(0))
                       /\ record.wind_speed =
                              TakenOr(hourly, "windspeed_10m", i, Num(0))
            /\ Len(weather_data.daily) = Len(TimesOf(daily))
            /\ \A i \in 1..Len(TimesOf(daily)) :
                   LET record == weather_data.daily[i]
                   IN  /\ record.date = daily.time[i]
                       /\ record.temperature_max =
                              TakenOr(daily, "temperature_2m_max", i, None)
                       /\ record.temperature_min =
                              TakenOr(daily, "temperature_2m_min", i, None)
                       /\ record.precipitation_sum =
                              TakenOr(daily, "precipitation_sum", i, Num(0))
                       /\ record.weather_code =
                              TakenOr(daily, "weathercode", i, Num(0))
            /\ "hourly" \notin DOMAIN raw_data => weather_data.hourly = <<>>
            /\ "daily" \notin DOMAIN raw_data => weather_data.daily = <<>>

\* a reply with two hourly times, a full array of codes, one wind speed, one
\* precipitation amount and no temperatures was processed, together with a
\* daily section of one day
C26_Witness ==
    /\ pc = "process_weather_data"
    /\ "hourly" \in DOMAIN raw_data
    /\ "daily" \in DOMAIN raw_data
    /\ Len(raw_data.hourly.time) = 2
    /\ "temperature_2m" \notin DOMAIN raw_data.hourly
    /\ Len(raw_data.hourly.windspeed_10m) = 1
    /\ "precipitation" \in DOMAIN raw_data.hourly
    /\ Len(raw_data.hourly.precipitation) = 1
    /\ "weathercode" \in DOMAIN raw_data.hourly
    /\ Len(raw_data.hourly.weathercode) = 2
    /\ Len(weather_data.hourly) = 2
    /\ weather_data.hourly[1].datetime = IsoNaive(FirstDay, 8, 0, 0)
    /\ weather_data.hourly[2].datetime = IsoNaive(FirstDay, 9, 0, 0)
    /\ weather_data.hourly[1].temperature = None
    /\ weather_data.hourly[1].wind_speed = Num(120)
    /\ weather_data.hourly[2].wind_speed = Num(0)
    /\ weather_data.hourly[2].precipitation = Num(0)
    /\ weather_data.hourly[2].weather_code = raw_data.hourly.weathercode[2]
    /\ Len(weather_data.daily) = 1
    /\ weather_data.daily[1].temperature_min = None
    /\ weather_data.daily[1].precipitation_sum = Num(0)

-----------------------------------------------------------------------------
(* Entries filtered by date, given as they are or as the merge dated them *)

\* entries as filter_entries_by_date_range may be given them: without a
\* date, with date None, a malformed one, a number, a date, a datetime and
\* a datetime with an offset
FilterEntries ==
    { [subject |-> <<"P","I","U">>],
      [subject |-> <<"S","O">>, date |-> None],
      [subject |-> <<"B","D">>, date |-> NotIso],
      [subject |-> <<"E","N">>, date |-> Num(20250107)],
      [subject |-> <<"P","I","U">>, date |-> IsoDate(FirstDay + 1)],
      [subject |-> <<"S","O">>, date |-> IsoNaive(FirstDay + 2, 23, 59, 59)],
      [subject |-> <<"B","D">>, date |-> IsoAware(FirstDay + 3, 0, 0, 0)] }

\* the bounds of the range asked for
FilterDates == (FirstDay + 1) .. (FirstDay + 3)

\* a day name in capitals, for the weekday the stored entries lack
Duminica == <<"D","U","M","I","N","I","C","A(">>

\* the entries of the loaded schedule
FilterSchedule ==
    StoredEntries
    \cup {[day |-> Duminica, time |-> TenToTwelve, subject |-> <<"S","O">>,
           location |-> <<>>]}

InitFilter ==
    /\ pc = "init"
    /\ today \in Today
    /\ day_name = <<>>
    /\ entry_date = None
    /\ time_range = <<>>
    /\ weather_data = EmptyDict
    /\ closest_weather = NotCalled
    /\ weather_info = None
    /\ rain = NotCalled
    /\ raw_data = None
    /\ file_data = NoFile
    /\ load_result = NotCalled
    /\ schedule \in SeqsUpTo(FilterSchedule, MaxEntries)
    /\ enriched_entries = NotCalled
    /\ statistics = NotCalled
    /\ IdleHeap /\ IdleFiles /\ IdleService /\ IdleWindow

\* filter_entries_by_date_range called on its own, with a list of entries
\* and a range
FilterEntriesByDateRange ==
    \E entries \in SeqsUpTo(FilterEntries, MaxEntries) :
        \E start_date \in FilterDates, end_date \in FilterDates :
            /\ pc = "init"
            /\ schedule = <<>>
            /\ pc' = "filter_entries_by_date_range"
            /\ args' = [entries |-> entries, start_date |-> start_date,
                        end_date |-> end_date]
            /\ filtered' =
                   filter_entries_by_date_range(entries, start_date, end_date)
            /\ UNCHANGED <<today, day_name, entry_date, time_range,
                           weather_data, closest_weather, weather_info, rain,
                           raw_data, file_data, load_result, schedule,
                           enriched_entries, statistics, heapVars, fileVars,
                           now, city_name, latitude, longitude,
                           temperature_unit, cached_weather, cache_timestamp,
                           pending_days_request, network, timers, signals,
                           weather_cache_file, refresh_weather_button,
                           notifications_enabled, check_interval, check_timer,
                           notification_history, notifications>>

\* on_weather_data_received, lines 277-290: the merge of the loaded schedule
\* and, on its output, get_entries_for_tomorrow
MergeThenTomorrow ==
    LET merged == merge_schedule_with_weather(schedule, weather_data, today)
    IN  /\ pc = "init"
        /\ pc' = "get_entries_for_tomorrow"
        /\ enriched_entries' = merged
        /\ args' = [entries |-> merged.value, start_date |-> today + 1,
                    end_date |-> today + 1]
        /\ filtered' = get_entries_for_tomorrow(merged.value, today)
        /\ UNCHANGED <<today, day_name, entry_date, time_range, weather_data,
                       closest_weather, weather_info, rain, raw_data,
                       file_data, load_result, schedule, statistics,
                       heapVars, fileVars,
                       now, city_name, latitude, longitude, temperature_unit,
                       cached_weather, cache_timestamp, pending_days_request,
                       network, timers, signals, weather_cache_file,
                       refresh_weather_button, notifications_enabled,
                       check_interval, check_timer, notification_history,
                       notifications>>

NextFilter == FilterEntriesByDateRange \/ MergeThenTomorrow

SpecFilter == InitFilter /\ [][NextFilter]_vars

-----------------------------------------------------------------------------
(* C27 *)

\* the entry has a date that is a string in ISO form
HasParseableDate(entry) ==
    /\ "date" \in DOMAIN entry
    /\ entry.date # None
    /\ entry.date.type = "str"
    /\ entry.date.form \in {"iso", "iso+offset"}

\* the positions of the entries of `entries` dated within [first, last]
PositionsWithin(entries, first, last) ==
    {i \in 1..Len(entries) :
        /\ HasParseableDate(entries[i])
        /\ entries[i].date.date \in first..last}

\* the positions of the entries of `entries` whose day names the weekday
PositionsOn(entries, day) ==
    {i \in 1..Len(entries) :
        Strip(Lower(entries[i].day)) = RomanianWeekdays[weekday(day) + 1]}

\* `sub` is `entries` restricted to the positions `kept`, in order
RestrictedTo(sub, entries, kept) ==
    /\ Len(sub) = Cardinality(kept)
    /\ \A i \in kept :
           sub[Cardinality({j \in kept : j <= i})] = entries[i]

\* C27: filter_entries_by_date_range returns, without raising and in input
\* order, exactly the entries whose date is present, parseable and within
\* [start_date, end_date]; and get_entries_for_tomorrow applied to the output
\* of a merge made on the same day returns exactly the merged entries whose
\* day is tomorrow's weekday.
C27_FilterByDateRange ==
    /\ pc \in {"filter_entries_by_date_range", "get_entries_for_tomorrow"} =>
           /\ filtered.exc = "none"
           /\ RestrictedTo(filtered.value, args.entries,
                           PositionsWithin(args.entries, args.start_date,
                                           args.end_date))
    /\ pc = "get_entries_for_tomorrow" =>
           /\ enriched_entries.exc = "none"
           /\ RestrictedTo(filtered.value, enriched_entries.value,
                           PositionsOn(schedule, today + 1))

\* on a Sunday the merge of a "Monday" entry, which gets no date, and a
\* "Luni" entry was filtered for tomorrow: the "Luni" entry alone is returned
C27_Witness ==
    /\ pc = "get_entries_for_tomorrow"
    /\ today = FirstDay + 6
    /\ Len(schedule) = 2
    /\ schedule[1].day = <<"M","o","n","d","a","y">>
    /\ schedule[2].day = Luni
    /\ enriched_entries.value[1].date = None
    /\ enriched_entries.value[2].date = IsoDate(FirstDay + 7)
    /\ filtered = Return(<<enriched_entries.value[2]>>)

-----------------------------------------------------------------------------
(* NotificationManager and MainWindow.apply_new_settings *)

\* every id taken for new
always_new(entry_id, history) == TRUE

\* `entry_id not in self.notification_history`
is_new(entry_id, history) == \A i \in 1..Len(history) : history[i] # entry_id

\* f"{entry.get('day', '')}_{entry.get('time', '')}_{entry.get('subject', '')}"
entry_id_of(entry) ==
    Get(entry, "day", <<>>) \o <<"_">> \o Get(entry, "time", <<>>)
        \o <<"_">> \o Get(entry, "subject", <<>>)

\* lines 134-140: the entries not notified before and the history with
\* their ids appended, from entry i on
RECURSIVE new_risky(_, _, _, _)
new_risky(risky_entries, i, new_risky_entries, history) ==
    IF i > Len(risky_entries)
    THEN [new_risky_entries |-> new_risky_entries, history |-> history]
    ELSE IF is_new(entry_id_of(risky_entries[i]), history)
    THEN new_risky(risky_entries, i + 1,
                   Append(new_risky_entries, risky_entries[i]),
                   Append(history, entry_id_of(risky_entries[i])))
    ELSE new_risky(risky_entries, i + 1, new_risky_entries, history)

\* lines 146-162: the notification made for the new entries
rain_notification(new_risky_entries) ==
    [title |-> IF Len(new_risky_entries) = 1
               THEN <<"Risc de ploaie">>
               ELSE <<"Risc de ploaie la", Len(new_risky_entries),
                      "activitati">>,
     ids |-> [i \in 1..Len(new_risky_entries) |->
                 entry_id_of(new_risky_entries[i])]]

\* NotificationManager.check_rain_risk_and_notify: the history it leaves and
\* the notifications it makes
check_rain_risk_and_notify(risky_entries, enabled, history) ==
    LET scanned == new_risky(risky_entries, 1, <<>>, history)
    IN  IF ~enabled \/ risky_entries = <<>>
        THEN [history |-> history, shown |-> <<>>]
        ELSE IF scanned.new_risky_entries = <<>>
        THEN [history |-> scanned.history, shown |-> <<>>]
        ELSE [history |-> scanned.history,
              shown |-> <<rain_notification(scanned.new_risky_entries)>>]

Max(a, b) == IF a > b THEN a ELSE b

\* NotificationManager.start_automatic_checks: check_interval and the timer
start_automatic_checks(interval_minutes) ==
    [check_interval |-> interval_minutes * 60000,
     check_timer |-> [active |-> TRUE, interval |-> interval_minutes * 60000]]

\* NotificationManager.set_check_interval
set_check_interval(minutes, interval, timer) ==
    IF timer.active
    THEN start_automatic_checks(Max(5, Min(1440, minutes)))
    ELSE [check_interval |-> Max(5, Min(1440, minutes)) * 60000,
          check_timer |-> timer]

\* NotificationManager.stop_automatic_checks
stop_automatic_checks(timer) == [active |-> FALSE, interval |-> timer.interval]

\* a call of WeatherService.set_location(self, city_name) with the given
\* positional arguments: the city it sets, or TypeError
set_location(positional) ==
    IF Len(positional) = 1 THEN Return(positional[1]) ELSE Raise("TypeError")

\* apply_new_settings, lines 486-492: the notification manager afterwards
apply_notification_settings(settings, interval, timer) ==
    LET minutes == Get(settings, "update_interval_minutes", 60)
        set == set_check_interval(minutes, interval, timer)
    IN  IF Get(settings, "auto_update_enabled", TRUE)
        THEN start_automatic_checks(minutes)
        ELSE [check_interval |-> set.check_interval,
              check_timer |-> stop_automatic_checks(set.check_timer)]

-----------------------------------------------------------------------------
(* The notification manager and the settings dialog at work *)

\* entries with rain risk: the first two have one id
RiskyEntries ==
    { [day |-> Luni, time |-> EightToTen, subject |-> <<"P","I","U">>,
       location |-> <<"C","3","0","9">>,
       weather_data |-> [precipitation_probability |-> Num(80)]],
      [day |-> Luni, time |-> EightToTen, subject |-> <<"P","I","U">>,
       location |-> <<"A","1">>,
       weather_data |-> [precipitation_probability |-> Num(40)]],
      [day |-> Joi, time |-> TenToTwelve, subject |-> <<"B","D">>,
       location |-> <<>>,
       weather_data |-> [precipitation_probability |-> Num(60)]] }

\* what the settings dialog saves (settings_dialog.py:195-217), the keys
\* apply_new_settings does not read left out
SavedSettings ==
    [temperature_unit : {Celsius, Fahrenheit},
     update_interval_minutes : {5, 90},
     auto_update_enabled : BOOLEAN,
     notifications_enabled : BOOLEAN,
     location_name : Cities]

InitNotify ==
    /\ pc = "init"
    /\ today = FirstDay
    /\ day_name = <<>>
    /\ entry_date = None
    /\ time_range = <<>>
    /\ weather_data = None
    /\ closest_weather = NotCalled
    /\ weather_info = None
    /\ rain = NotCalled
    /\ raw_data = None
    /\ file_data = NoFile
    /\ load_result = NotCalled
    /\ schedule = <<>>
    /\ enriched_entries = NotCalled
    /\ statistics = NotCalled
    /\ IdleHeap /\ IdleFiles /\ IdleWindow
    /\ now = 0
    /\ city_name = "Bucuresti"
    /\ latitude = "44.4268"
    /\ longitude = "26.1025"
    /\ temperature_unit = Celsius
    /\ weather_cache_file \in WeatherCacheFiles
    /\ cached_weather = load_weather_from_file(weather_cache_file, now).cached_weather
    /\ cache_timestamp = load_weather_from_file(weather_cache_file, now).cache_timestamp
    /\ pending_days_request = 0
    /\ network = <<>>
    /\ timers = <<>>
    /\ signals = <<>>
    /\ args = NotCalled

\* what no operation of the notification manager touches
notifyFrame ==
    <<dataVars, heapVars, fileVars, now, city_name, latitude, longitude,
      pending_days_request, cache_timestamp, network, timers, signals,
      weather_cache_file, refresh_weather_button, filtered>>

\* NotificationManager.check_rain_risk_and_notify(risky_entries)
CheckRainRiskAndNotify ==
    \E risky_entries \in SeqsUpTo(RiskyEntries, MaxEntries) :
        LET done == check_rain_risk_and_notify(risky_entries,
                                               notifications_enabled,
                                               notification_history)
        IN  /\ Running
            /\ pc' = "check_rain_risk_and_notify"
            /\ args' = [risky_entries |-> risky_entries]
            /\ notification_history' = done.history
            /\ notifications' = notifications \o done.shown
            /\ UNCHANGED <<notifications_enabled, check_interval, check_timer,
                           temperature_unit, cached_weather, notifyFrame>>

\* NotificationManager.enable_notifications(enabled)
EnableNotifications ==
    \E enabled \in BOOLEAN :
        /\ Running
        /\ pc' = "enable_notifications"
        /\ args' = [enabled |-> enabled]
        /\ notifications_enabled' = enabled
        /\ UNCHANGED <<check_interval, check_timer, notification_history,
                       notifications, temperature_unit, cached_weather,
                       notifyFrame>>

\* NotificationManager.clear_notification_history
ClearNotificationHistory ==
    /\ Running
    /\ pc' = "clear_notification_history"
    /\ args' = NotCalled
    /\ notification_history' = <<>>
    /\ notifications' = <<>>
    /\ UNCHANGED <<notifications_enabled, check_interval, check_timer,
                   temperature_unit, cached_weather, notifyFrame>>

\* MainWindow.apply_new_settings(settings), the slot of settings_changed:
\* set_temperature_unit, then set_location called with two arguments
ApplyNewSettings ==
    \E settings \in SavedSettings :
        LET unit == Get(settings, "temperature_unit", Celsius)
            located == set_location(<<Get(settings, "latitude", "44.4268"),
                                      Get(settings, "longitude", "26.1025")>>)
            manager == apply_notification_settings(settings, check_interval,
                                                   check_timer)
        IN  /\ Running
            /\ args' = [settings |-> settings]
            /\ temperature_unit' =
                   IF known_unit(unit) THEN Lower(unit) ELSE temperature_unit
            /\ IF located.exc # "none"
               THEN /\ pc' = "abort"
                    /\ cached_weather' =
                           IF known_unit(unit) THEN None ELSE cached_weather
                    /\ UNCHANGED <<city_name, notifications_enabled,
                                   check_interval, check_timer>>
               ELSE /\ pc' = "apply_new_settings"
                    /\ city_name' = located.value
                    /\ notifications_enabled' =
                           Get(settings, "notifications_enabled", TRUE)
                    /\ check_interval' = manager.check_interval
                    /\ check_timer' = manager.check_timer
                    /\ cached_weather' = None
            /\ UNCHANGED <<dataVars, heapVars, fileVars, now, latitude,
                           longitude, pending_days_request, cache_timestamp,
                           network, timers, signals, weather_cache_file,
                           refresh_weather_button, filtered,
                           notification_history, notifications>>

NextNotify ==
    \/ CheckRainRiskAndNotify
    \/ EnableNotifications
    \/ ClearNotificationHistory
    \/ ApplyNewSettings

SpecNotify == InitNotify /\ [][NextNotify]_vars

-----------------------------------------------------------------------------
(* C25 *)

\* the ids counted in the rain notifications, one after the other
RECURSIVE Counted(_)
Counted(shown) ==
    IF shown = <<>> THEN <<>> ELSE Head(shown).ids \o Counted(Tail(shown))

\* no element occurs twice in the sequence
NoRepeat(q) == \A i, j \in 1..Len(q) : q[i] = q[j] => i = j

\* the id of an entry: its day, time and subject joined by "_"
IdOf(entry) == entry.day \o <<"_">> \o entry.time \o <<"_">> \o entry.subject

\* C25: without an intervening clear_notification_history, each entry id
\* (day_time_subject) is counted in at most one notification and
\* notification_history never holds an id twice; a call of
\* check_rain_risk_and_notify whose entries are all in the history already
\* shows no notification; a call made while notifications are disabled
\* shows nothing and leaves the history unchanged.
C25_NoDuplicateNotifications ==
    /\ [](NoRepeat(notification_history) /\ NoRepeat(Counted(notifications)))
    /\ [][pc' = "check_rain_risk_and_notify" =>
             /\ (\A i \in 1..Len(args'.risky_entries) :
                     \E k \in 1..Len(notification_history) :
                         notification_history[k]
                             = IdOf(args'.risky_entries[i]))
                    => notifications' = notifications
             /\ ~notifications_enabled =>
                    /\ notifications' = notifications
                    /\ notification_history' = notification_history]_vars

\* two entries of one id were passed in one call after another id had been
\* notified: one notification counts the id once, and the history holds
\* both ids once
C25_Witness ==
    /\ pc = "check_rain_risk_and_notify"
    /\ Len(args.risky_entries) = 2
    /\ args.risky_entries[1] # args.risky_entries[2]
    /\ IdOf(args.risky_entries[1]) = IdOf(args.risky_entries[2])
    /\ Len(notifications) = 2
    /\ notifications[2].ids = <<IdOf(args.risky_entries[1])>>
    /\ notification_history
           = notifications[1].ids \o <<IdOf(args.risky_entries[1])>>

-----------------------------------------------------------------------------
(* C24 *)

\* C24: once the settings dialog is saved, apply_new_settings completes and
\* leaves the application configured as saved: the weather service's
\* temperature unit and location are the saved ones and its cache is
\* invalidated; the notification manager's enabled flag, check interval and
\* timer state (running iff auto_update_enabled) are the saved ones.
C24_SettingsApplied ==
    ("settings" \in DOMAIN args) =>
        /\ pc = "apply_new_settings"
        /\ temperature_unit = args.settings.temperature_unit
        /\ city_name = args.settings.location_name
        /\ cached_weather = None
        /\ notifications_enabled = args.settings.notifications_enabled
        /\ check_interval = args.settings.update_interval_minutes * 60000
        /\ check_timer.active = args.settings.auto_update_enabled

-----------------------------------------------------------------------------
(* C22 *)

\* the forecast the server gives for a city and a unit, as processed
ForecastFor(city, unit) ==
    process_weather_data(ServerForecast(
        ForecastRequest(Place(city).latitude, Place(city).longitude, 7, unit)))

\* the forecast for the coordinates and unit the service starts with, as
\* resources/weather_cache.json may hold it
StartForecast ==
    process_weather_data(ServerForecast(
        ForecastRequest("44.4268", "26.1025", 7, Celsius)))

\* the forecast was fetched for the service's current city and unit
Current(forecast) ==
    \/ forecast = ForecastFor(city_name, temperature_unit)
    \/ /\ city_name = "Bucuresti"
       /\ temperature_unit = Celsius
       /\ forecast = StartForecast

\* C22: under every interleaving of fetches, replies and setting changes,
\* the forecast held in the cache and the forecast emitted through
\* weather_data_ready were fetched for the service's current city and
\* temperature unit: the reply to a request issued before set_location or
\* set_temperature_unit is never cached or delivered after that change.
C22_ForecastIsForCurrentSettings ==
    /\ cached_weather # None => Current(cached_weather)
    /\ \A i \in 1..Len(signals) :
           signals[i].signal = "weather_data_ready"
               => Current(signals[i].data)

-----------------------------------------------------------------------------
(* MainWindow with its WeatherService: loads, refreshes and replies *)

\* fetches whose requests or timer callbacks are outstanding at once
MaxOutstanding == 2

\* a valid entry whose day _calculate_entry_date does not know
RecMonday ==
    [day |-> <<"M","o","n","d","a","y">>, time |-> EightToTen,
     subject |-> <<"P","I","U">>]

\* the files the user picks: two schedules and a file that does not load
WindowFiles ==
    {File("json", json_dump(<<RecMonday>>)),
     File("json", json_dump(<<RecLuni, RecMarti>>)),
     File("json", NotJson)}

\* MainWindow.__init__: the service, the notification manager, and the
\* forecast load_weather_from_file returned kept when it is truthy
\* (lines 61-63)
InitWindow ==
    /\ pc = "init"
    /\ today = FirstDay
    /\ day_name = <<>>
    /\ entry_date = None
    /\ time_range = <<>>
    /\ closest_weather = NotCalled
    /\ weather_info = None
    /\ rain = NotCalled
    /\ raw_data = None
    /\ file_data = NoFile
    /\ load_result = NotCalled
    /\ schedule = <<>>
    /\ enriched_entries = NotCalled
    /\ statistics = NotCalled
    /\ IdleHeap /\ IdleFiles /\ IdleWindow
    /\ now = 0
    /\ city_name = "Bucuresti"
    /\ latitude = "44.4268"
    /\ longitude = "26.1025"
    /\ temperature_unit = Celsius
    /\ weather_cache_file \in WeatherCacheFiles
    /\ cached_weather = load_weather_from_file(weather_cache_file, now).cached_weather
    /\ cache_timestamp = load_weather_from_file(weather_cache_file, now).cache_timestamp
    /\ weather_data = cached_weather
    /\ pending_days_request = 0
    /\ network = <<>>
    /\ timers = <<>>
    /\ signals = <<>>
    /\ args = NotCalled

\* what neither a refresh nor a slot of the window touches
windowFrame ==
    <<today, day_name, entry_date, time_range, closest_weather, weather_info,
      rain, raw_data, file_data, load_result, schedule, heapVars, fileVars,
      notifications_enabled, check_interval, check_timer, filtered>>

\* what the slots of the two signals may change
slotVars ==
    <<weather_data, enriched_entries, statistics, refresh_weather_button,
      notification_history, notifications>>

\* on_weather_data_received, lines 292-298, for one entry of the merge: an
\* entry of tomorrow with rain is given "weather_data"
mark_rain_tomorrow(entry, reference_date) ==
    IF /\ in_date_range(entry, reference_date + 1, reference_date + 1)
       /\ ~Falsy(entry.weather)
       /\ detect_rain_conditions(entry.weather).value[1]
    THEN [k \in DOMAIN entry \cup {"weather_data"} |->
             IF k = "weather_data" THEN entry.weather ELSE entry[k]]
    ELSE entry

\* on_weather_data_received, lines 300-316, `entries` being enriched_entries
\* after the loop over tomorrow's entries: the notifications, the statistics
\* and the button
notify_and_enable(entries, risky_entries, stats) ==
    /\ enriched_entries' = Return(entries)
    /\ notification_history' =
           check_rain_risk_and_notify(risky_entries, notifications_enabled,
                                      notification_history).history
    /\ notifications' =
           notifications
               \o check_rain_risk_and_notify(risky_entries,
                                             notifications_enabled,
                                             notification_history).shown
    /\ IF stats.exc # "none"
       THEN UNCHANGED <<statistics, refresh_weather_button>>
       ELSE /\ statistics' = stats
            /\ refresh_weather_button' = TRUE

\* the entries the loop of lines 292-298 appended to risky_entries
is_risky(entry) == "weather_data" \in DOMAIN entry

\* on_weather_data_received, lines 284-316, given the merge of line 278
merged_on_receipt(data, merged) ==
    IF merged.exc # "none"
    THEN UNCHANGED <<enriched_entries, statistics, refresh_weather_button,
                     notification_history, notifications>>
    ELSE IF \/ update_table_with_weather_data_raises(merged.value)
            \/ update_charts_raises(data, merged.value)
    THEN /\ enriched_entries' = merged
         /\ UNCHANGED <<statistics, refresh_weather_button,
                        notification_history, notifications>>
    ELSE LET entries == [i \in 1..Len(merged.value) |->
                            mark_rain_tomorrow(merged.value[i], today)]
         IN  notify_and_enable(entries, SelectSeq(entries, is_risky),
                               calculate_statistics(entries))

\* MainWindow.on_weather_data_received(weather_data), the slot of
\* weather_data_ready
on_weather_data_received(data) ==
    /\ weather_data' = data
    /\ IF Falsy(schedule_data)
       THEN /\ refresh_weather_button' = TRUE
            /\ UNCHANGED <<enriched_entries, statistics,
                           notification_history, notifications>>
       ELSE merged_on_receipt(data,
                              merge_schedule_with_weather(
                                  schedule_data.schedule, data, today))

\* MainWindow.on_weather_error, the slot of weather_error
on_weather_error ==
    /\ refresh_weather_button' = TRUE
    /\ UNCHANGED <<weather_data, enriched_entries, statistics,
                   notification_history, notifications>>

\* the slots connected at lines 44-45 run inside emit
Slots(emitted) ==
    IF emitted = <<>> THEN UNCHANGED slotVars
    ELSE IF emitted[1].signal = "weather_data_ready"
    THEN on_weather_data_received(emitted[1].data)
    ELSE on_weather_error

\* MainWindow.load_schedule with a file picked in the dialog
LoadScheduleInWindow ==
    \E file \in WindowFiles : Running /\ LoadSchedule(file)

\* MainWindow.refresh_weather, the slot of the button's clicked signal
RefreshWeather ==
    /\ Running
    /\ refresh_weather_button
    /\ ~Falsy(schedule_data)
    /\ Len(network) + Len(timers) < MaxOutstanding
    /\ pc' = "refresh_weather"
    /\ args' = NotCalled
    /\ refresh_weather_button' = FALSE
    /\ fetch_weather_data(7)
    /\ UNCHANGED <<weather_data, enriched_entries, statistics,
                   notification_history, notifications, windowFrame>>

\* the timer's call of _fetch_weather_for_coords, the window listening
TimerFires ==
    /\ _fetch_weather_for_coords
    /\ Slots(signals')
    /\ UNCHANGED windowFrame

\* a reply arrives, the window listening
ReplyArrives ==
    \E i \in 1..Len(network) :
        \E reply \in Replies(network[i]) :
            /\ handle_response(i, reply)
            /\ Slots(signals')
            /\ UNCHANGED windowFrame

NextWindow ==
    \/ LoadScheduleInWindow
    \/ RefreshWeather
    \/ TimerFires
    \/ ReplyArrives
    \/ Tick

SpecWindow == InitWindow /\ [][NextWindow]_vars

\* a pending timer callback is run: within NextWindow, the steps of
\* TimerFires and no others
TimerRuns ==
    /\ Running
    /\ timers # <<>>
    /\ timers' = Tail(timers)

\* an outstanding request is answered: within NextWindow, the steps of
\* ReplyArrives and no others
RequestAnswered ==
    /\ Running
    /\ \E i \in 1..Len(network) : network' = Remove(network, i)

\* the event loop runs every pending timer callback (QTimer.singleShot(0)),
\* and every request eventually receives a reply
SpecWindowLive ==
    /\ InitWindow
    /\ [][NextWindow]_vars
    /\ WF_timers(TimerRuns)
    /\ WF_network(RequestAnswered)

-----------------------------------------------------------------------------
(* C23 *)

\* requests and timer callbacks of fetches that have not ended yet
Outstanding == Len(network) + Len(timers)

\* C23: at most one weather fetch is outstanding at any time, and while a
\* geocoding request, a scheduled _fetch_weather_for_coords call or a
\* forecast request is outstanding the refresh button is disabled, whatever
\* load_schedule and the other operations of the window do meanwhile.
C23_OneFetchOutstanding ==
    /\ Outstanding <= 1
    /\ Outstanding > 0 => ~refresh_weather_button

-----------------------------------------------------------------------------
(* C29 *)

\* the entries of the schedule now loaded
CurrentSchedule ==
    IF Falsy(schedule_data) THEN <<>> ELSE schedule_data.schedule

\* MainWindow.enriched_entries, [] until a merge is assigned to it
EnrichedEntries ==
    IF enriched_entries = NotCalled THEN <<>> ELSE enriched_entries.value

-----------------------------------------------------------------------------
(* C21 *)

\* the signals the step's operation emits; load_schedule is no operation of
\* the service and leaves `signals` as the operation before it left it
Emitted == IF pc' = "load_schedule" THEN 0 ELSE Len(signals')

\* the fetches the step starts
Started == IF pc' = "refresh_weather" THEN 1 ELSE 0

\* C21: every request eventually receiving a reply, every call of
\* fetch_weather_data leads to exactly one emission of weather_data_ready or
\* weather_error (a call is outstanding, as a request or a scheduled
\* callback, until the one emission that ends it), and the refresh button
\* that refresh_weather disabled is eventually enabled again.
C21_FetchEndsInOneEmission ==
    /\ [][Outstanding' = Outstanding + Started - Emitted]_vars
    /\ (pc = "refresh_weather") ~> refresh_weather_button

=============================================================================
